---- MODULE Spec2Model ----
(***************************************************************************)
(* A model of shell-t: the security manager (src/src/security.rs), the     *)
(* command policy (src/src/config.rs), the pipeline executor               *)
(* (src/src/executor.rs) and the command line parser (src/src/parser.rs).  *)
(*                                                                         *)
(* The module holds one specification per component:                       *)
(*   SpecRate    SecurityManager::check_rate_limit under a stepping clock  *)
(*   SpecCallers check_rate_limit called by concurrent threads             *)
(*   SpecGuard   register_process / ProcessGuard::drop by several threads  *)
(*   SpecPolicy  validate_command (config.rs and executor.rs) on inputs    *)
(*   SpecPipe    CommandExecutor::execute_pipeline and its children        *)
(*   SpecResolve CommandExecutor::resolve_command on inputs                *)
(*   SpecParse   parser::parse_command on lines of characters              *)
(*   SpecWords   parser::parse_command on lines of words                   *)
(*   SpecSegments parser::parse_command on pipelines of segments           *)
(*   SpecQuoted  parser::parse_command on lines with operators in quotes   *)
(*   SpecArgs    validate_arguments and its two namesakes on lists         *)
(*   SpecPath    validate_file_path and validate_path on paths             *)
(*   SpecSanitize validation::sanitize_input on inputs                     *)
(*   SpecStart   can_start_process beside the threads of SpecGuard         *)
(*   SpecAdmit   threads that register only after can_start_process        *)
(*   SpecMonitor monitoring::execute_with_monitoring beside a guard holder *)
(*   SpecCalls   a sequence of execute_pipeline calls                      *)
(* A specification leaves the variables of the other components at their   *)
(* initial values.                                                         *)
(***************************************************************************)
EXTENDS Integers, Sequences, FiniteSets, TLC

VARIABLES
    now,              \* Instant::now(), in seconds since the manager was built
    rate_limiter,     \* SecurityManager.rate_limiter: key -> Vec<Instant>
    rl_accepted,      \* history: per key, the time of every call that returned Ok
    rl_last,          \* history: the last check_rate_limit call and its result
    rl_threads,       \* per concurrent caller of check_rate_limit, its locals
    active_processes, \* SecurityManager.active_processes (AtomicUsize)
    guards,           \* per thread, the ProcessGuards alive in its scope
    th_pc,            \* per thread, "run" or the way its scope is being left
    created,          \* history: ProcessGuards created so far
    dropped,          \* history: ProcessGuards dropped so far
    config,           \* the Config the policy and the executor were built with
    vc_last,          \* the last validate_command call: function, name, result
    commands,         \* execute_pipeline: its argument, &[ParsedCommand]
    pc,               \* execute_pipeline: "idle", "loop", "wait" or "returned"
    i,                \* execute_pipeline: the index of the spawn loop (from 0)
    children,         \* execute_pipeline: Vec<Child>, as indices into procs
    prev_stdout,      \* execute_pipeline: Option<ChildStdout>, a pipe's read end
    w,                \* execute_pipeline: the next child to wait for (from 1)
    result,           \* execute_pipeline: the value returned
    wait_failed,      \* history: some child.wait() of the call returned Err
    procs,            \* the operating system's processes, in spawn order
    files,            \* the file system: path -> whether it exists, its content
    files_before,     \* history: the file system when execute_pipeline was called
    command_history,  \* SecurityManager.command_history: name -> CommandStats
    rc_last,          \* the last resolve_command call: arguments and result
    input,            \* parse_command: its argument, the line read
    parsed,           \* parse_command: the Result it returned for input
    check_last        \* the last call of a validation function and its result

rate_vars == <<now, rate_limiter, rl_accepted, rl_last, rl_threads>>

guard_vars == <<active_processes, guards, th_pc, created, dropped>>

policy_vars == <<config, vc_last>>

fs_vars == <<files, files_before>>

pipe_vars == <<commands, pc, i, children, prev_stdout, w, result, wait_failed,
               procs, fs_vars, command_history>>

resolve_vars == <<rc_last>>

parse_vars == <<input, parsed>>

check_vars == <<check_last>>

fn_vars == <<resolve_vars, parse_vars, check_vars>>

vars == <<rate_vars, guard_vars, policy_vars, pipe_vars, fn_vars>>

(***************************************************************************)
(* Rate limiter: SecurityManager::check_rate_limit                         *)
(***************************************************************************)

\* Duration::from_secs(60), the length of the sliding window
WINDOW_SECS == 60

\* the ceiling of entries.len() at which a call is refused
RATE_LIMIT == 10

\* the clock is followed up to MaxTime seconds
MaxTime == 62

\* calls are followed until MaxAccepted of them, over all keys, were accepted
MaxAccepted == 12

\* the clock advances between calls by one of these amounts
TickSteps == {30, 31}

Keys == {"cmd:ls", "test_user"}

NoCall == [key |-> "", time |-> 0, result |-> "none"]

RECURSIVE TotalLen(_, _)
TotalLen(f, S) ==
    IF S = {} THEN 0
    ELSE LET k == CHOOSE x \in S : TRUE IN Len(f[k]) + TotalLen(f, S \ {k})

\* mutant of retain: an entry exactly 60 seconds old is kept
retain_keeps_boundary(entries, t) ==
    SelectSeq(entries, LAMBDA time : t - time <= WINDOW_SECS)

\* entries.retain(|&time| now.duration_since(time) < Duration::from_secs(60))
retain(entries, t) == SelectSeq(entries, LAMBDA time : t - time < WINDOW_SECS)

\* limiter.entry(key.to_string()).or_insert_with(Vec::new)
entry_or_insert(limiter, key) ==
    IF key \in DOMAIN limiter THEN limiter
    ELSE [k \in DOMAIN limiter \cup {key} |-> IF k = key THEN <<>> ELSE limiter[k]]

\* mutant of check_rate_limit: the timestamp is pushed before the length check
check_rate_limit_records_rejected(limiter, key, t) ==
    LET inserted == entry_or_insert(limiter, key)
        entries  == retain(inserted[key], t)
    IN  [limiter |-> [inserted EXCEPT ![key] = Append(entries, t)],
         result  |-> IF Len(entries) >= RATE_LIMIT
                     THEN "ResourceLimitExceeded" ELSE "Ok"]

\* The whole of check_rate_limit, run under the rate_limiter mutex: the map
\* after the call and the value returned.
check_rate_limit(limiter, key, t) ==
    LET inserted == entry_or_insert(limiter, key)
        entries  == retain(inserted[key], t)
    IN  IF Len(entries) >= RATE_LIMIT
        THEN [limiter |-> [inserted EXCEPT ![key] = entries],
              result  |-> "ResourceLimitExceeded"]
        ELSE [limiter |-> [inserted EXCEPT ![key] = Append(entries, t)],
              result  |-> "Ok"]

\* the threads that call check_rate_limit concurrently
Callers == {"c1", "c2"}

\* a caller outside check_rate_limit
IdleCaller == [pc |-> "idle", key |-> "", now |-> 0]

\* SecurityManager::new, as far as the rate limiter goes
RateInit ==
    /\ now = 0
    /\ rate_limiter = <<>>
    /\ rl_accepted = [k \in Keys |-> <<>>]
    /\ rl_last = NoCall
    /\ rl_threads = [t \in Callers |-> IdleCaller]

\* a caller runs check_rate_limit(key, config) at the current instant
CheckRateLimit(key) ==
    LET r == check_rate_limit(rate_limiter, key, now)
    IN  /\ TotalLen(rl_accepted, Keys) < MaxAccepted
        /\ rate_limiter' = r.limiter
        /\ rl_last' = [key |-> key, time |-> now, result |-> r.result]
        /\ rl_accepted' = IF r.result = "Ok"
                          THEN [rl_accepted EXCEPT ![key] = Append(@, now)]
                          ELSE rl_accepted
        /\ UNCHANGED <<now, rl_threads>>
        /\ UNCHANGED <<guard_vars, policy_vars, pipe_vars, fn_vars>>

\* time passes
Tick(d) ==
    /\ now + d <= MaxTime
    /\ now' = now + d
    /\ UNCHANGED <<rate_limiter, rl_accepted, rl_last, rl_threads>>
    /\ UNCHANGED <<guard_vars, policy_vars, pipe_vars, fn_vars>>

NextRate ==
    \/ \E key \in Keys : CheckRateLimit(key)
    \/ \E d \in TickSteps : Tick(d)

\* the key the concurrent callers share
SharedKeys == {"cmd:ls"}

\* mutant of mutex_free: the lock is always granted
mutex_free_always(threads) == TRUE

\* self.rate_limiter.lock() returns once no other thread holds the guard; a
\* caller holds it from its lock() to its return
mutex_free(threads) == \A t \in DOMAIN threads : threads[t].pc = "idle"

\* caller t enters check_rate_limit(key, config) and takes the lock
RlLock(t, key) ==
    /\ rl_threads[t].pc = "idle"
    /\ mutex_free(rl_threads)
    /\ TotalLen(rl_accepted, Keys) < MaxAccepted
    /\ rl_threads' = [rl_threads EXCEPT ![t] = [pc |-> "now", key |-> key, now |-> 0]]
    /\ UNCHANGED <<now, rate_limiter, rl_accepted, rl_last>>
    /\ UNCHANGED <<guard_vars, policy_vars, pipe_vars, fn_vars>>

\* let now = Instant::now()
RlNow(t) ==
    /\ rl_threads[t].pc = "now"
    /\ rl_threads' = [rl_threads EXCEPT ![t].pc = "retain", ![t].now = now]
    /\ UNCHANGED <<now, rate_limiter, rl_accepted, rl_last>>
    /\ UNCHANGED <<guard_vars, policy_vars, pipe_vars, fn_vars>>

\* limiter.entry(key).or_insert_with(Vec::new) and entries.retain(..)
RlRetain(t) ==
    LET key      == rl_threads[t].key
        inserted == entry_or_insert(rate_limiter, key)
    IN  /\ rl_threads[t].pc = "retain"
        /\ rate_limiter' =
               [inserted EXCEPT ![key] = retain(inserted[key], rl_threads[t].now)]
        /\ rl_threads' = [rl_threads EXCEPT ![t].pc = "len"]
        /\ UNCHANGED <<now, rl_accepted, rl_last>>
        /\ UNCHANGED <<guard_vars, policy_vars, pipe_vars, fn_vars>>

\* `if entries.len() >= 10 { return Err(..) }`: the return drops the guard
RlLen(t) ==
    LET key == rl_threads[t].key
    IN  /\ rl_threads[t].pc = "len"
        /\ IF Len(rate_limiter[key]) >= RATE_LIMIT
           THEN /\ rl_threads' = [rl_threads EXCEPT ![t] = IdleCaller]
                /\ rl_last' = [key |-> key, time |-> rl_threads[t].now,
                               result |-> "ResourceLimitExceeded"]
           ELSE /\ rl_threads' = [rl_threads EXCEPT ![t].pc = "push"]
                /\ UNCHANGED rl_last
        /\ UNCHANGED <<now, rate_limiter, rl_accepted>>
        /\ UNCHANGED <<guard_vars, policy_vars, pipe_vars, fn_vars>>

\* entries.push(now); Ok(()): the return drops the guard
RlPush(t) ==
    LET key == rl_threads[t].key
    IN  /\ rl_threads[t].pc = "push"
        /\ rate_limiter' =
               [rate_limiter EXCEPT ![key] = Append(@, rl_threads[t].now)]
        /\ rl_accepted' = [rl_accepted EXCEPT ![key] = Append(@, rl_threads[t].now)]
        /\ rl_last' = [key |-> key, time |-> rl_threads[t].now, result |-> "Ok"]
        /\ rl_threads' = [rl_threads EXCEPT ![t] = IdleCaller]
        /\ UNCHANGED now
        /\ UNCHANGED <<guard_vars, policy_vars, pipe_vars, fn_vars>>

NextCallers ==
    \/ \E t \in Callers, key \in SharedKeys : RlLock(t, key)
    \/ \E t \in Callers : RlNow(t)
    \/ \E t \in Callers : RlRetain(t)
    \/ \E t \in Callers : RlLen(t)
    \/ \E t \in Callers : RlPush(t)
    \/ \E d \in TickSteps : Tick(d)

(***************************************************************************)
(* Process accounting: register_process and ProcessGuard::drop             *)
(***************************************************************************)

\* usize::MAX, the value a fetch_sub on 0 wraps to; the checker's integers
\* are 32 bits wide, so its largest integer stands for 2^64 - 1
USIZE_MAX == 2147483647

\* at most MaxGuards guards are alive in one thread's scope
MaxGuards == 2

\* threads are followed until MaxCreated guards were created
MaxCreated == 5

Threads == {"t1", "t2", "t3"}

\* the ways a scope that owns guards is left
ExitPaths == {"return", "early_return", "error"}

\* AtomicUsize::fetch_add(1, SeqCst): the new value, wrapping
fetch_add(x) == IF x = USIZE_MAX THEN 0 ELSE x + 1

\* mutant of fetch_sub: the decrement is lost
fetch_sub_lost(x) == x

\* AtomicUsize::fetch_sub(1, SeqCst): the new value, wrapping
fetch_sub(x) == IF x = 0 THEN USIZE_MAX ELSE x - 1

RECURSIVE SumOver(_, _)
SumOver(f, S) ==
    IF S = {} THEN 0
    ELSE LET k == CHOOSE x \in S : TRUE IN f[k] + SumOver(f, S \ {k})

\* SecurityManager::new, as far as process accounting goes
GuardInit ==
    /\ active_processes = 0
    /\ guards = [t \in Threads |-> 0]
    /\ th_pc = [t \in Threads |-> "run"]
    /\ created = 0
    /\ dropped = 0

\* thread t calls register_process and keeps the guard in its scope
RegisterProcess(t) ==
    /\ th_pc[t] = "run"
    /\ guards[t] < MaxGuards
    /\ created < MaxCreated
    /\ active_processes' = fetch_add(active_processes)
    /\ guards' = [guards EXCEPT ![t] = @ + 1]
    /\ created' = created + 1
    /\ UNCHANGED <<th_pc, dropped>>
    /\ UNCHANGED <<rate_vars, policy_vars, pipe_vars, fn_vars>>

\* thread t leaves the scope that owns its guards: by reaching its end, by an
\* early return or by an error propagated with `?`
ScopeExit(t, path) ==
    /\ th_pc[t] = "run"
    /\ guards[t] > 0
    /\ th_pc' = [th_pc EXCEPT ![t] = path]
    /\ UNCHANGED <<active_processes, guards, created, dropped>>
    /\ UNCHANGED <<rate_vars, policy_vars, pipe_vars, fn_vars>>

\* ProcessGuard::drop for one guard of the scope thread t is leaving
DropGuard(t) ==
    /\ th_pc[t] \in ExitPaths
    /\ guards[t] > 0
    /\ active_processes' = fetch_sub(active_processes)
    /\ guards' = [guards EXCEPT ![t] = @ - 1]
    /\ dropped' = dropped + 1
    /\ th_pc' = [th_pc EXCEPT ![t] = IF guards[t] = 1 THEN "run" ELSE @]
    /\ UNCHANGED created
    /\ UNCHANGED <<rate_vars, policy_vars, pipe_vars, fn_vars>>

NextGuard ==
    \/ \E t \in Threads : RegisterProcess(t)
    \/ \E t \in Threads, path \in ExitPaths : ScopeExit(t, path)
    \/ \E t \in Threads : DropGuard(t)

(***************************************************************************)
(* Command policy: config::validation::validate_command and                *)
(* CommandExecutor::validate_command                                       *)
(***************************************************************************)

\* SecurityConfig::default().max_command_length
DEFAULT_MAX_COMMAND_LENGTH == 4096

\* ResourceLimits::default().max_pipeline_length
DEFAULT_MAX_PIPELINE_LENGTH == 10

\* SecurityConfig::default().max_arg_count
DEFAULT_MAX_ARG_COUNT == 100

\* ResourceLimits::default().max_background_processes
DEFAULT_MAX_BACKGROUND_PROCESSES == 10

\* config.limits.max_arg_length in the configurations of the model; the
\* field has no default in config.rs
MaxArgLength == 8

\* command names the policy is asked about
Names == {"ls", "sudo", "shutdown"}

\* values of max_command_length: the default and one set through
\* SHELL_T_MAX_COMMAND_LENGTH
CommandLengths == {4, DEFAULT_MAX_COMMAND_LENGTH}

\* Option<Vec<String>>: None, or Some(list)
None == [some |-> FALSE, list |-> {}]
Some(list) == [some |-> TRUE, list |-> list]
Options(S) == {None} \cup {Some(l) : l \in SUBSET S}

\* mutant of validate_command: the allow-set is consulted first and admits
validate_command_allow_first(cfg, command) ==
    IF Len(command) > cfg.max_command_length THEN "InvalidInput"
    ELSE IF cfg.allowed_commands # {} /\ command \in cfg.allowed_commands
         THEN "Ok"
    ELSE IF command \in cfg.blocked_commands THEN "DangerousCommand"
    ELSE IF cfg.allowed_commands # {} THEN "DangerousCommand:whitelist"
    ELSE "Ok"

\* mutant of validate_command: a name of exactly max_command_length is refused
validate_command_length_ge(cfg, command) ==
    IF Len(command) >= cfg.max_command_length THEN "InvalidInput"
    ELSE IF command \in cfg.blocked_commands THEN "DangerousCommand"
    ELSE IF cfg.allowed_commands # {} /\ command \notin cfg.allowed_commands
         THEN "DangerousCommand:whitelist"
    ELSE "Ok"

\* config::validation::validate_command: "Ok" or the error returned
validate_command(cfg, command) ==
    IF Len(command) > cfg.max_command_length THEN "InvalidInput"
    ELSE IF command \in cfg.blocked_commands THEN "DangerousCommand"
    ELSE IF cfg.allowed_commands # {} /\ command \notin cfg.allowed_commands
         THEN "DangerousCommand:whitelist"
    ELSE "Ok"

\* CommandExecutor::validate_command: "Ok" or the error returned
CommandExecutor_validate_command(cfg, command) ==
    IF cfg.command_whitelist.some /\ command \notin cfg.command_whitelist.list
    THEN "SecurityViolation:whitelist"
    ELSE IF cfg.command_blacklist.some /\ command \in cfg.command_blacklist.list
    THEN "SecurityViolation:blacklist"
    ELSE "Ok"

NoValidation == [fn |-> "none", name |-> "", result |-> "none"]

\* the configurations the policy functions are applied under
PolicyConfigs ==
    [allowed_commands    : SUBSET Names,
     blocked_commands    : SUBSET Names,
     max_command_length  : CommandLengths,
     command_whitelist   : Options(Names),
     command_blacklist   : Options(Names),
     max_pipeline_length : {DEFAULT_MAX_PIPELINE_LENGTH},
     max_arg_length      : {MaxArgLength},
     max_arg_count       : {DEFAULT_MAX_ARG_COUNT},
     validate_paths      : {TRUE},
     sanitize_input      : {TRUE},
     max_background_processes : {DEFAULT_MAX_BACKGROUND_PROCESSES}]

\* Config::default() as far as the model reads it, for the specifications
\* that do not vary the configuration
DefaultConfig ==
    [allowed_commands    |-> {"ls"},
     blocked_commands    |-> {"sudo"},
     max_command_length  |-> DEFAULT_MAX_COMMAND_LENGTH,
     command_whitelist   |-> None,
     command_blacklist   |-> None,
     max_pipeline_length |-> DEFAULT_MAX_PIPELINE_LENGTH,
     max_arg_length      |-> MaxArgLength,
     max_arg_count       |-> DEFAULT_MAX_ARG_COUNT,
     validate_paths      |-> TRUE,
     sanitize_input      |-> TRUE,
     max_background_processes |-> DEFAULT_MAX_BACKGROUND_PROCESSES]

PolicyIdle ==
    /\ config = DefaultConfig
    /\ vc_last = NoValidation

PolicyInit ==
    /\ config \in PolicyConfigs
    /\ vc_last = NoValidation

\* a caller runs config::validation::validate_command(&config, command)
ValidateCommand(command) ==
    /\ vc_last' = [fn |-> "config", name |-> command,
                   result |-> validate_command(config, command)]
    /\ UNCHANGED config
    /\ UNCHANGED <<rate_vars, guard_vars, pipe_vars, fn_vars>>

\* the executor runs self.validate_command(command)
ExecutorValidateCommand(command) ==
    /\ vc_last' = [fn |-> "executor", name |-> command,
                   result |-> CommandExecutor_validate_command(config, command)]
    /\ UNCHANGED config
    /\ UNCHANGED <<rate_vars, guard_vars, pipe_vars, fn_vars>>

NextPolicy ==
    \/ \E command \in Names : ValidateCommand(command)
    \/ \E command \in Names : ExecutorValidateCommand(command)

(***************************************************************************)
(* Pipeline executor: CommandExecutor::execute_pipeline                    *)
(***************************************************************************)

\* pipelines of up to MaxStages commands are submitted
MaxStages == 4

\* values of config.limits.max_pipeline_length: the one of
\* test_execute_pipeline_too_long and one more
PipelineLengths == {2, 3}

\* Option<String> and Option<ChildStdout>
NoPath == [some |-> FALSE, path |-> ""]
SomePath(path) == [some |-> TRUE, path |-> path]
NoPipe == [some |-> FALSE, pipe |-> 0]
SomePipe(stage) == [some |-> TRUE, pipe |-> stage]

\* what a child's standard stream is connected to
Inherit == [kind |-> "inherit", path |-> "", pipe |-> 0, append |-> FALSE]
File(path, append) == [kind |-> "file", path |-> path, pipe |-> 0, append |-> append]
\* the pipe created for the standard output of stage `stage`:
\* as stdout its write end, as stdin its read end
Pipe(stage) == [kind |-> "pipe", path |-> "", pipe |-> stage, append |-> FALSE]

\* parser::Command
Cmd(program, args, input_redirect, output_redirect, append, background) ==
    [program |-> program, args |-> args, input_redirect |-> input_redirect,
     output_redirect |-> output_redirect, append |-> append,
     background |-> background]

\* the commands pipelines are built from
CommandPool ==
    { Cmd("ls", <<>>, NoPath, NoPath, FALSE, FALSE),
      Cmd("ls", <<"x">>, SomePath("in"), SomePath("out"), FALSE, FALSE),
      Cmd("ls", <<>>, NoPath, SomePath("out"), TRUE, TRUE),
      Cmd("", <<>>, NoPath, NoPath, FALSE, FALSE),
      Cmd("sudo", <<>>, NoPath, NoPath, FALSE, FALSE),
      Cmd("sudo", <<>>, NoPath, SomePath("out"), FALSE, FALSE),
      Cmd("run.py", <<"x">>, NoPath, NoPath, FALSE, FALSE),
      Cmd("ls", <<"../etc">>, NoPath, NoPath, FALSE, FALSE),
      Cmd("ls", <<"0123456789">>, NoPath, NoPath, FALSE, TRUE),
      Cmd("ls", <<"a;b">>, NoPath, NoPath, FALSE, FALSE) }

Pipelines == UNION {[1..n -> CommandPool] : n \in 0..MaxStages}

\* str::ends_with
EndsWith(str, suffix) ==
    /\ Len(str) >= Len(suffix)
    /\ SubSeq(str, Len(str) - Len(suffix) + 1, Len(str)) = suffix

\* str::contains
Contains(str, pattern) ==
    \E k \in 1..(Len(str) - Len(pattern) + 1) :
        SubSeq(str, k, k + Len(pattern) - 1) = pattern

\* mutant of resolve_command: the interpreter is not given the script name
resolve_command_without_script(program, args) ==
    IF EndsWith(program, ".py") THEN [cmd |-> "python3", args |-> args]
    ELSE IF EndsWith(program, ".rb") THEN [cmd |-> "ruby", args |-> args]
    ELSE IF EndsWith(program, ".js") THEN [cmd |-> "node", args |-> args]
    ELSE [cmd |-> program, args |-> args]

\* CommandExecutor::resolve_command: (actual_cmd, actual_args)
resolve_command(program, args) ==
    IF EndsWith(program, ".py")
    THEN [cmd |-> "python3", args |-> <<program>> \o args]
    ELSE IF EndsWith(program, ".rb")
    THEN [cmd |-> "ruby", args |-> <<program>> \o args]
    ELSE IF EndsWith(program, ".js")
    THEN [cmd |-> "node", args |-> <<program>> \o args]
    ELSE [cmd |-> program, args |-> args]

\* CommandExecutor::validate_args: "Ok" or the error of the first bad argument
RECURSIVE validate_args(_, _)
validate_args(cfg, args) ==
    IF args = <<>> THEN "Ok"
    ELSE IF Contains(Head(args), "../") \/ Contains(Head(args), "..\\")
    THEN "SecurityViolation:traversal"
    ELSE IF Len(Head(args)) > cfg.max_arg_length
    THEN "SecurityViolation:arglen"
    ELSE validate_args(cfg, Tail(args))

\* mutant of pipeline_too_long: a pipeline of exactly the maximum is refused
pipeline_too_long_ge(cfg, cmds) == Len(cmds) >= cfg.max_pipeline_length

\* commands.len() > self.config.limits.max_pipeline_length
pipeline_too_long(cfg, cmds) == Len(cmds) > cfg.max_pipeline_length

\* mutant of stage_stdin: the input redirect is preferred to the pipe
stage_stdin_redirect_first(prev, cmd) ==
    IF cmd.input_redirect.some THEN File(cmd.input_redirect.path, FALSE)
    ELSE IF prev.some THEN Pipe(prev.pipe)
    ELSE Inherit

\* what command.stdin is set to: the previous stage's pipe, else the input
\* redirect, else nothing (inherited)
stage_stdin(prev, cmd) ==
    IF prev.some THEN Pipe(prev.pipe)
    ELSE IF cmd.input_redirect.some THEN File(cmd.input_redirect.path, FALSE)
    ELSE Inherit

\* mutant of stage_stdout: the output redirect of any stage is opened
stage_stdout_redirect_first(idx, n, cmd) ==
    IF cmd.output_redirect.some
    THEN File(cmd.output_redirect.path, cmd.append)
    ELSE IF idx < n - 1 THEN Pipe(idx)
    ELSE Inherit

\* what command.stdout is set to at stage idx of n: a new pipe for a
\* non-final stage, else the output redirect, else nothing (inherited)
stage_stdout(idx, n, cmd) ==
    IF idx < n - 1 THEN Pipe(idx)
    ELSE IF cmd.output_redirect.some
    THEN File(cmd.output_redirect.path, cmd.append)
    ELSE Inherit

\* mutant of should_wait: the background flag is ignored
should_wait_always(cmds) == TRUE

\* !commands.last().map_or(false, |c| c.background)
should_wait(cmds) == ~(IF cmds = <<>> THEN FALSE ELSE cmds[Len(cmds)].background)

\* a path that does not exist, and a file with its content, a sequence of
\* the chunks written to it
NoFile == [exists |-> FALSE, data |-> <<>>]

FileOf(data) == [exists |-> TRUE, data |-> data]

\* the paths the commands of CommandPool redirect from and to
FilePaths == {"in", "out"}

\* what a child writes to its standard output
OUTPUT == "appended content"

\* the file systems a call starts in: the input file is there, the output
\* file is missing, or holds what an earlier command wrote
\* (fs::write("test_append.txt", "initial content\n") in main.rs)
FileSystems ==
    {[path \in FilePaths |-> IF path = "in" THEN FileOf(<<"input">>) ELSE out] :
        out \in {NoFile, FileOf(<<"initial content">>)}}

\* mutant of open_output: the file is truncated in append mode as well
open_output_truncates(fs, path, append) ==
    [fs EXCEPT ![path] = FileOf(<<>>)]

\* OpenOptions::new().create(true).append(true).open(path) keeps the content
\* of an existing file and creates a missing one; File::create(path)
\* creates or truncates
open_output(fs, path, append) ==
    IF append
    THEN [fs EXCEPT ![path] = IF @.exists THEN @ ELSE FileOf(<<>>)]
    ELSE [fs EXCEPT ![path] = FileOf(<<>>)]

\* the child's write to the descriptor it inherited as standard output
write_all(fs, path, chunk) ==
    [fs EXCEPT ![path] = FileOf(Append(@.data, chunk))]

\* mutant of wait_is_err: a non-zero exit status counts as a failed wait
wait_is_err_on_status(wait_ok, code) == ~wait_ok \/ code # 0

\* `if let Err(e) = child.wait()`: the ExitStatus of an Ok is not looked at
wait_is_err(wait_ok, code) == ~wait_ok

\* mutant of drop_children: the children still running are killed
drop_children_kill(ps, handles) ==
    [p \in DOMAIN ps |->
        IF p \in {handles[h] : h \in DOMAIN handles} /\ ps[p].status = "running"
        THEN [ps[p] EXCEPT !.status = "killed"] ELSE ps[p]]

\* dropping Vec<Child> on return: std::process::Child has no Drop that kills
\* or waits, so the processes are left as they are
drop_children(ps, handles) == ps

NoStats == [count |-> 0, last_execution |-> 0, total_time |-> 0]

\* mutant of record_command: the entry is replaced by a fresh one
record_command_fresh(history, command, t, execution_time) ==
    [k \in DOMAIN history \cup {command} |->
        IF k = command
        THEN [count |-> 1, last_execution |-> t, total_time |-> execution_time]
        ELSE history[k]]

\* SecurityManager::record_command
record_command(history, command, t, execution_time) ==
    LET old == IF command \in DOMAIN history THEN history[command] ELSE NoStats
        new == [count |-> old.count + 1, last_execution |-> t,
                total_time |-> old.total_time + execution_time]
    IN  [k \in DOMAIN history \cup {command} |->
            IF k = command THEN new ELSE history[k]]

NoResult == [status |-> "none", kind |-> "", stage |-> 0]
Ok == [status |-> "Ok", kind |-> "", stage |-> 0]
\* Err(ShellError) with the stage the error arose at
Err(kind, stage) == [status |-> "Err", kind |-> kind, stage |-> stage]

\* the configurations the executor is built with
PipeConfigs ==
    [allowed_commands    : {DefaultConfig.allowed_commands},
     blocked_commands    : {DefaultConfig.blocked_commands},
     max_command_length  : {DEFAULT_MAX_COMMAND_LENGTH},
     command_whitelist   : {None},
     command_blacklist   : {Some({"sudo"})},
     max_pipeline_length : PipelineLengths,
     max_arg_length      : {MaxArgLength},
     max_arg_count       : {DEFAULT_MAX_ARG_COUNT},
     validate_paths      : {TRUE},
     sanitize_input      : {TRUE},
     max_background_processes : {DEFAULT_MAX_BACKGROUND_PROCESSES}]

\* CommandExecutor::new and SecurityManager::new; no pipeline submitted yet
PipeStart ==
    /\ commands = <<>>
    /\ pc = "idle"
    /\ i = 0
    /\ children = <<>>
    /\ prev_stdout = NoPipe
    /\ w = 1
    /\ result = NoResult
    /\ wait_failed = FALSE
    /\ procs = <<>>
    /\ command_history = <<>>

PipeIdle ==
    /\ PipeStart
    /\ files = [path \in FilePaths |-> NoFile]
    /\ files_before = files

PipeInit ==
    /\ config \in PipeConfigs
    /\ vc_last = NoValidation
    /\ PipeStart
    /\ files \in FileSystems
    /\ files_before = files

\* execute_pipeline is called: the two admission checks, then the locals
ExecutePipeline ==
    /\ pc = "idle"
    /\ \E cmds \in Pipelines :
          /\ commands' = cmds
          /\ IF cmds = <<>>
             THEN pc' = "returned" /\ result' = Ok
             ELSE IF pipeline_too_long(config, cmds)
             THEN pc' = "returned" /\ result' = Err("Process:too_long", 0)
             ELSE pc' = "loop" /\ result' = NoResult
    /\ i' = 0
    /\ children' = <<>>
    /\ prev_stdout' = NoPipe
    /\ w' = 1
    /\ files_before' = files
    /\ UNCHANGED <<wait_failed, procs, files, command_history>>
    /\ UNCHANGED <<rate_vars, guard_vars, policy_vars, fn_vars>>

\* mutant of Abort: the error is noted and the loop goes on with the next stage
Abort_continues(kind) ==
    /\ result' = Err(kind, i)
    /\ pc' = "loop"
    /\ i' = i + 1
    /\ UNCHANGED <<commands, procs, children, prev_stdout, w, wait_failed,
                   command_history>>

\* `return Err(..)` or `?` inside the spawn loop: the locals are dropped
Abort(kind) ==
    /\ result' = Err(kind, i)
    /\ pc' = "returned"
    /\ procs' = drop_children(procs, children)
    /\ children' = <<>>
    /\ prev_stdout' = NoPipe
    /\ UNCHANGED <<commands, i, w, wait_failed, command_history>>

\* mutant of program_is_empty: no stage is skipped
program_is_empty_never(cmd) == FALSE

\* `if cmd.program.is_empty() { continue; }`
program_is_empty(cmd) == cmd.program = ""

\* one iteration of the spawn loop, for commands[i]; the operating system
\* decides whether the redirect files open and whether the spawn succeeds
Stage(open_in_ok, open_out_ok, spawn_ok) ==
    /\ pc = "loop"
    /\ i < Len(commands)
    /\ LET cmd      == commands[i + 1]
           n        == Len(commands)
           resolved == resolve_command(cmd.program, cmd.args)
           stdin    == stage_stdin(prev_stdout, cmd)
           stdout   == stage_stdout(i, n, cmd)
           child    == [stage |-> i, program |-> resolved.cmd,
                        args |-> resolved.args, stdin |-> stdin,
                        stdout |-> stdout, status |-> "running", code |-> 0,
                        reaped |-> FALSE, wrote |-> FALSE]
           opened   == IF stdout.kind = "file"
                       THEN open_output(files, stdout.path, stdout.append)
                       ELSE files
       IN  IF program_is_empty(cmd)
           THEN /\ i' = i + 1
                /\ UNCHANGED <<commands, pc, children, prev_stdout, w, result,
                               wait_failed, procs, files, command_history>>
           ELSE IF CommandExecutor_validate_command(config, resolved.cmd) # "Ok"
           THEN /\ Abort(CommandExecutor_validate_command(config, resolved.cmd))
                /\ UNCHANGED files
           ELSE IF validate_args(config, resolved.args) # "Ok"
           THEN /\ Abort(validate_args(config, resolved.args))
                /\ UNCHANGED files
           ELSE IF stdin.kind = "file" /\ ~open_in_ok
           THEN /\ Abort("FileSystem:input")
                /\ UNCHANGED files
           ELSE IF stdout.kind = "file" /\ ~open_out_ok
           THEN /\ Abort("FileSystem:output")
                /\ UNCHANGED files
           ELSE IF ~spawn_ok
           THEN /\ Abort("CommandExecution")
                /\ files' = opened
           ELSE /\ procs' = Append(procs, child)
                /\ files' = opened
                /\ children' = Append(children, Len(procs) + 1)
                /\ prev_stdout' = IF i < n - 1 THEN SomePipe(i) ELSE NoPipe
                /\ command_history' =
                       record_command(command_history, resolved.cmd, now, 0)
                /\ i' = i + 1
                /\ UNCHANGED <<commands, pc, w, result, wait_failed>>
    /\ UNCHANGED files_before
    /\ UNCHANGED <<rate_vars, guard_vars, policy_vars, fn_vars>>

\* the spawn loop is over: wait for the children, or return at once
LoopExit ==
    /\ pc = "loop"
    /\ i = Len(commands)
    /\ IF should_wait(commands)
       THEN /\ pc' = "wait"
            /\ UNCHANGED <<result, procs, children, prev_stdout>>
       ELSE /\ pc' = "returned"
            /\ result' = Ok
            /\ procs' = drop_children(procs, children)
            /\ children' = <<>>
            /\ prev_stdout' = NoPipe
    /\ UNCHANGED <<commands, i, w, wait_failed, fs_vars, command_history>>
    /\ UNCHANGED <<rate_vars, guard_vars, policy_vars, fn_vars>>

\* child.wait() for the next child: it returns the exit status once the child
\* has exited, or fails, which ends the call with ShellError::Process
WaitChild(wait_ok) ==
    /\ pc = "wait"
    /\ w <= Len(children)
    /\ wait_ok => procs[children[w]].status = "exited"
    /\ wait_failed' = (wait_failed \/ ~wait_ok)
    /\ IF wait_is_err(wait_ok, procs[children[w]].code)
       THEN /\ result' = Err("Process:wait", w - 1)
            /\ pc' = "returned"
            /\ procs' = drop_children(procs, children)
            /\ children' = <<>>
            /\ prev_stdout' = NoPipe
            /\ UNCHANGED w
       ELSE /\ procs' = [procs EXCEPT ![children[w]].reaped = TRUE]
            /\ w' = w + 1
            /\ UNCHANGED <<pc, result, children, prev_stdout>>
    /\ UNCHANGED <<commands, i, fs_vars, command_history>>
    /\ UNCHANGED <<rate_vars, guard_vars, policy_vars, fn_vars>>

\* every child was waited for: Ok(())
WaitDone ==
    /\ pc = "wait"
    /\ w > Len(children)
    /\ pc' = "returned"
    /\ result' = Ok
    /\ children' = <<>>
    /\ prev_stdout' = NoPipe
    /\ UNCHANGED <<commands, i, w, wait_failed, procs, fs_vars,
                   command_history>>
    /\ UNCHANGED <<rate_vars, guard_vars, policy_vars, fn_vars>>

\* a running process exits, with a zero or a non-zero status
ChildExit(p, code) ==
    /\ p \in DOMAIN procs
    /\ procs[p].status = "running"
    /\ procs' = [procs EXCEPT ![p].status = "exited", ![p].code = code]
    /\ UNCHANGED <<commands, pc, i, children, prev_stdout, w, result,
                   wait_failed, fs_vars, command_history>>
    /\ UNCHANGED <<rate_vars, guard_vars, policy_vars, fn_vars>>

\* a running process whose standard output is a file writes its output: the
\* file was opened empty or in append mode, so the bytes land at its end
ChildWrite(p) ==
    /\ p \in DOMAIN procs
    /\ procs[p].status = "running"
    /\ procs[p].stdout.kind = "file"
    /\ ~procs[p].wrote
    /\ files' = write_all(files, procs[p].stdout.path, OUTPUT)
    /\ procs' = [procs EXCEPT ![p].wrote = TRUE]
    /\ UNCHANGED <<commands, pc, i, children, prev_stdout, w, result,
                   wait_failed, files_before, command_history>>
    /\ UNCHANGED <<rate_vars, guard_vars, policy_vars, fn_vars>>

NextPipe ==
    \/ ExecutePipeline
    \/ \E open_in_ok, open_out_ok, spawn_ok \in BOOLEAN :
          Stage(open_in_ok, open_out_ok, spawn_ok)
    \/ LoopExit
    \/ \E wait_ok \in BOOLEAN : WaitChild(wait_ok)
    \/ WaitDone
    \/ \E p \in 1..MaxStages, code \in {0, 1} : ChildExit(p, code)
    \/ \E p \in 1..MaxStages : ChildWrite(p)

(***************************************************************************)
(* A sequence of execute_pipeline calls on one CommandExecutor             *)
(***************************************************************************)

\* the calls are followed until MaxSpawns processes were spawned
MaxSpawns == 3

\* the longest pipeline of a sequence of calls
MaxCallStages == 2

\* the commands of the calls: a plain one, a script and one that is refused;
\* none of them is redirected to a file
CallPool ==
    { Cmd("ls", <<>>, NoPath, NoPath, FALSE, FALSE),
      Cmd("run.py", <<"x">>, NoPath, NoPath, FALSE, FALSE),
      Cmd("sudo", <<>>, NoPath, NoPath, FALSE, FALSE) }

CallPipelines == UNION {[1..n -> CallPool] : n \in 0..MaxCallStages}

\* execute_pipeline is called, for the first time or after an earlier call
\* has returned: the two admission checks, then the locals
ExecuteAgain ==
    /\ pc \in {"idle", "returned"}
    /\ \E cmds \in CallPipelines :
          /\ Len(procs) + Len(cmds) <= MaxSpawns
          /\ commands' = cmds
          /\ IF cmds = <<>>
             THEN pc' = "returned" /\ result' = Ok
             ELSE IF pipeline_too_long(config, cmds)
             THEN pc' = "returned" /\ result' = Err("Process:too_long", 0)
             ELSE pc' = "loop" /\ result' = NoResult
    /\ i' = 0
    /\ children' = <<>>
    /\ prev_stdout' = NoPipe
    /\ w' = 1
    /\ wait_failed' = FALSE
    /\ files_before' = files
    /\ UNCHANGED <<procs, files, command_history>>
    /\ UNCHANGED <<rate_vars, guard_vars, policy_vars, fn_vars>>

CallsInit ==
    /\ config \in PipeConfigs
    /\ vc_last = NoValidation
    /\ PipeIdle

NextCalls ==
    \/ ExecuteAgain
    \/ \E open_in_ok, open_out_ok, spawn_ok \in BOOLEAN :
          Stage(open_in_ok, open_out_ok, spawn_ok)
    \/ LoopExit
    \/ \E wait_ok \in BOOLEAN : WaitChild(wait_ok)
    \/ WaitDone
    \/ \E p \in 1..MaxSpawns, code \in {0, 1} : ChildExit(p, code)

(***************************************************************************)
(* Command line parser: parser::parse_command                              *)
(***************************************************************************)

\* Result<Vec<Command>, String>; NoParse before any call
NoParse == [status |-> "none", error |-> "", commands |-> <<>>]

ParseOk(cmds) == [status |-> "Ok", error |-> "", commands |-> cmds]

ParseErr(msg) == [status |-> "Err", error |-> msg, commands |-> <<>>]

ParseIdle == input = "" /\ parsed = NoParse

\* the longest line of characters, the longest line of words and the longest
\* pipeline of segments parsed
MaxLineLen == 5

MaxWords == 5

MaxSegments == 3

\* the characters of the lines: a letter, the two white space characters, the
\* pipe, the two quotes and an operator character
Alphabet == {"a", " ", "\t", "|", "\"", "'", ">"}

\* the words of the lines: two names, the pipe and the operators
Words == {"a", "b", "|", "&", "<", ">", ">>"}

\* the segments of the pipelines: commands with and without a `&`
Segments ==
    {"ls", "sleep 5", "sleep 5 &", "ls &", "& ls", "cat < in > out &"}

\* the words of the lines with quoted operators: two names and the four
\* operators, each written inside quotes
QuotedWords == {"echo", "f", "\">\"", "'<'", "\">>\"", "'&'"}

\* the words of a list, separated by sep
RECURSIVE join(_, _)
join(words, sep) ==
    IF words = <<>> THEN ""
    ELSE IF Len(words) = 1 THEN words[1]
    ELSE words[1] \o sep \o join(Tail(words), sep)

CharLines == {join(cs, "") : cs \in UNION {[1..n -> Alphabet] : n \in 0..MaxLineLen}}

WordLines == {join(ws, " ") : ws \in UNION {[1..n -> Words] : n \in 1..MaxWords}}

QuotedLines ==
    {join(ws, " ") : ws \in UNION {[1..n -> QuotedWords] : n \in 1..MaxWords}}

PipeLines ==
    {join(ss, " | ") : ss \in UNION {[1..n -> Segments] : n \in 1..MaxSegments}}

Char(str, k) == SubSeq(str, k, k)

\* char::is_whitespace, on the characters of Alphabet
WhiteSpace == {" ", "\t"}

\* str::trim
RECURSIVE trim_start(_)
trim_start(str) ==
    IF str # "" /\ Char(str, 1) \in WhiteSpace
    THEN trim_start(SubSeq(str, 2, Len(str))) ELSE str

RECURSIVE trim_end(_)
trim_end(str) ==
    IF str # "" /\ Char(str, Len(str)) \in WhiteSpace
    THEN trim_end(SubSeq(str, 1, Len(str) - 1)) ELSE str

trim(str) == trim_end(trim_start(str))

\* str::split(char): the pieces between the occurrences of sep
RECURSIVE split(_, _)
split(str, sep) ==
    IF \E k \in 1..Len(str) : Char(str, k) = sep
    THEN LET k == CHOOSE k \in 1..Len(str) :
                      /\ Char(str, k) = sep
                      /\ \A j \in 1..(k - 1) : Char(str, j) # sep
         IN  <<SubSeq(str, 1, k - 1)>> \o split(SubSeq(str, k + 1, Len(str)), sep)
    ELSE <<str>>

\* mutant of pipe_commands: the segments are collected from right to left
pipe_commands_reversed(line) ==
    [k \in DOMAIN split(line, "|") |->
        trim(split(line, "|")[Len(split(line, "|")) + 1 - k])]

\* input.split('|').map(|s| s.trim()).collect()
pipe_commands(line) ==
    [k \in DOMAIN split(line, "|") |-> trim(split(line, "|")[k])]

\* mutant of missing_command: an empty last segment is let through
missing_command_not_last(segments) ==
    \E k \in DOMAIN segments : segments[k] = "" /\ k - 1 < Len(segments) - 1

\* the check for empty commands in the pipeline; k - 1 is the index i
missing_command(segments) ==
    \E k \in DOMAIN segments :
        \/ segments[k] = "" /\ k - 1 < Len(segments) - 1
        \/ segments[k] = "" /\ k - 1 = Len(segments) - 1 /\ Len(segments) > 1

\* parts, current_part, in_quotes and quote_char before the first character
NoParts ==
    [parts |-> <<>>, current_part |-> "", in_quotes |-> FALSE, quote_char |-> " "]

\* mutant of scan_char: the quotes stay in the part they enclose
scan_char_keeps_quotes(st, ch) ==
    IF ch \in {"\"", "'"} /\ ~st.in_quotes
    THEN [st EXCEPT !.in_quotes = TRUE, !.quote_char = ch,
                    !.current_part = @ \o ch]
    ELSE IF ch \in {"\"", "'"} /\ st.in_quotes /\ ch = st.quote_char
    THEN [st EXCEPT !.in_quotes = FALSE, !.quote_char = " ",
                    !.current_part = @ \o ch]
    ELSE IF ch = " " /\ ~st.in_quotes
    THEN IF st.current_part # ""
         THEN [st EXCEPT !.parts = Append(@, st.current_part),
                         !.current_part = ""]
         ELSE st
    ELSE [st EXCEPT !.current_part = @ \o ch]

\* one turn of `for ch in chars`: the four arms of the match, in order
scan_char(st, ch) ==
    IF ch \in {"\"", "'"} /\ ~st.in_quotes
    THEN [st EXCEPT !.in_quotes = TRUE, !.quote_char = ch]
    ELSE IF ch \in {"\"", "'"} /\ st.in_quotes /\ ch = st.quote_char
    THEN [st EXCEPT !.in_quotes = FALSE, !.quote_char = " "]
    ELSE IF ch = " " /\ ~st.in_quotes
    THEN IF st.current_part # ""
         THEN [st EXCEPT !.parts = Append(@, st.current_part),
                         !.current_part = ""]
         ELSE st
    ELSE [st EXCEPT !.current_part = @ \o ch]

RECURSIVE scan(_, _, _)
scan(str, k, st) ==
    IF k > Len(str) THEN st ELSE scan(str, k + 1, scan_char(st, Char(str, k)))

\* the parts of a segment: the scan, then the push of the last part
tokenize(cmd_str) ==
    LET st == scan(cmd_str, 1, NoParts)
    IN  IF st.current_part # "" THEN Append(st.parts, st.current_part)
        ELSE st.parts

\* program, args, the redirects, the flags and the index i before the
\* `while` loop; error holds the message of a `return Err`
NoFields ==
    [program |-> "", args |-> <<>>, input_redirect |-> NoPath,
     output_redirect |-> NoPath, append |-> FALSE, background |-> FALSE,
     i |-> 0, error |-> ""]

\* mutant of input_redirection: a `<` without a file is skipped
input_redirection_skips(st, parts) ==
    IF st.i + 1 < Len(parts)
    THEN [st EXCEPT !.input_redirect = SomePath(parts[st.i + 2]), !.i = @ + 2]
    ELSE [st EXCEPT !.i = @ + 1]

\* the arm "<"
input_redirection(st, parts) ==
    IF st.i + 1 < Len(parts)
    THEN [st EXCEPT !.input_redirect = SomePath(parts[st.i + 2]), !.i = @ + 2]
    ELSE [st EXCEPT !.error = "Missing input file after '<'"]

\* mutant of output_redirection: `>` leaves append as it is
output_redirection_keeps_append(st, parts) ==
    IF st.i + 1 < Len(parts)
    THEN [st EXCEPT !.output_redirect = SomePath(parts[st.i + 2]),
                    !.append = (@ \/ parts[st.i + 1] = ">>"), !.i = @ + 2]
    ELSE [st EXCEPT !.error =
              "Missing output file after '" \o parts[st.i + 1] \o "'"]

\* the arms ">" and ">>"
output_redirection(st, parts) ==
    IF st.i + 1 < Len(parts)
    THEN [st EXCEPT !.output_redirect = SomePath(parts[st.i + 2]),
                    !.append = (parts[st.i + 1] = ">>"), !.i = @ + 2]
    ELSE [st EXCEPT !.error =
              "Missing output file after '" \o parts[st.i + 1] \o "'"]

\* mutant of plain_part: a later part goes before the earlier arguments
plain_part_prepends(st, part) ==
    IF st.program = ""
    THEN [st EXCEPT !.program = part, !.i = @ + 1]
    ELSE [st EXCEPT !.args = <<part>> \o @, !.i = @ + 1]

\* the arm _: the program, or one more argument
plain_part(st, part) ==
    IF st.program = ""
    THEN [st EXCEPT !.program = part, !.i = @ + 1]
    ELSE [st EXCEPT !.args = Append(@, part), !.i = @ + 1]

\* `while i < parts.len()`, until it ends or returns an error
RECURSIVE classify(_, _)
classify(parts, st) ==
    IF st.error # "" \/ ~(st.i < Len(parts)) THEN st
    ELSE LET part == parts[st.i + 1]
         IN  classify(parts,
                 IF part = "<" THEN input_redirection(st, parts)
                 ELSE IF part \in {">", ">>"} THEN output_redirection(st, parts)
                 ELSE IF part = "&"
                 THEN [st EXCEPT !.background = TRUE, !.i = @ + 1]
                 ELSE plain_part(st, part))

\* background: background && i == pipe_commands.len() - 1, where i is the
\* index of the `while` loop over the parts, which is parts.len() here
background_flag(st, segments) == st.background /\ st.i = Len(segments) - 1

\* `for cmd_str in pipe_commands.iter()`, from segment k on, with the
\* commands pushed so far
RECURSIVE parse_segments(_, _, _)
parse_segments(segments, k, cmds) ==
    IF k > Len(segments)
    THEN IF cmds = <<>> THEN ParseErr("No commands to execute")
         ELSE ParseOk(cmds)
    ELSE LET parts == tokenize(segments[k])
             st    == classify(parts, NoFields)
         IN  IF parts = <<>> THEN parse_segments(segments, k + 1, cmds)
             ELSE IF st.error # "" THEN ParseErr(st.error)
             ELSE IF st.program = "" THEN ParseErr("No command specified")
             ELSE parse_segments(segments, k + 1,
                      Append(cmds,
                             Cmd(st.program, st.args, st.input_redirect,
                                 st.output_redirect, st.append,
                                 background_flag(st, segments))))

\* parser::parse_command
parse_command(line) ==
    IF trim(line) = "" THEN ParseErr("Empty command")
    ELSE IF missing_command(pipe_commands(trim(line)))
    THEN ParseErr("Missing command after pipe")
    ELSE parse_segments(pipe_commands(trim(line)), 1, <<>>)

\* match parser::parse_command(input) in main
ParseCommand(line) ==
    /\ input' = line
    /\ parsed' = parse_command(line)
    /\ UNCHANGED <<rate_vars, guard_vars, policy_vars, pipe_vars, resolve_vars,
                   check_vars>>

\* a line of characters is parsed
NextParse == parsed = NoParse /\ \E line \in CharLines : ParseCommand(line)

\* a line of words is parsed
NextWords == parsed = NoParse /\ \E line \in WordLines : ParseCommand(line)

\* a line with operators in quotes is parsed
NextQuoted == parsed = NoParse /\ \E line \in QuotedLines : ParseCommand(line)

\* a pipeline of segments is parsed
NextSegments == parsed = NoParse /\ \E line \in PipeLines : ParseCommand(line)

(***************************************************************************)
(* Input validation: the validation modules of security.rs and config.rs   *)
(* and the security module of error.rs                                     *)
(***************************************************************************)

\* the longest argument list the validators are applied to
MaxArgList == 3

\* values of max_arg_count and max_command_length set below the defaults
SmallArgCount == 2

SmallCommandLength == 4

\* the limit on an argument's length in security::validate_command_args
ARG_LENGTH_LIMIT == 1024

\* the grave accent (U+0060) of the dangerous characters; a string of this
\* module cannot hold that character, so the circumflex stands for it
GRAVE == "^"

\* a string of n times the character ch
RECURSIVE Repeat(_, _)
Repeat(ch, n) ==
    IF n = 0 THEN ""
    ELSE IF n % 2 = 0 THEN Repeat(ch, n \div 2) \o Repeat(ch, n \div 2)
    ELSE ch \o Repeat(ch, n - 1)

\* the arguments: plain ones, one longer than SmallCommandLength, one longer
\* than ARG_LENGTH_LIMIT, and one with each shell metacharacter
CheckedArgs ==
    {"a", "-la", "abcde", Repeat("a", ARG_LENGTH_LIMIT + 1),
     "a;", "a&", "a|", "a" \o GRAVE, "a$", "a(", "a)", "a<", "a>", "a\"", "a'", "a\\"}

CheckedArgLists == UNION {[1..n -> CheckedArgs] : n \in 0..MaxArgList}

\* the configurations the validators run under: the default, and one with
\* small limits
CheckConfigs ==
    {DefaultConfig,
     [DefaultConfig EXCEPT !.max_arg_count = SmallArgCount,
                           !.max_command_length = SmallCommandLength]}

\* str.chars().any(|c| chars.contains(&c))
any_char(str, chars) == \E k \in 1..Len(str) : SubSeq(str, k, k) \in chars

\* dangerous_chars of validation::validate_arguments (security.rs)
DANGEROUS_CHARS == {";", "&", "|", GRAVE, "$", "(", ")", "<", ">", "\\"}

\* dangerous_chars of security::validate_command_args (error.rs)
DANGEROUS_CHARS_ERROR_RS ==
    {";", "&", "|", GRAVE, "$", "(", ")", "<", ">", "\"", "'"}

\* the `for arg in args` loop of validate_arguments
RECURSIVE validate_arguments_each(_, _)
validate_arguments_each(args, cfg) ==
    IF args = <<>> THEN "Ok"
    ELSE IF Len(Head(args)) > cfg.max_command_length
    THEN "InvalidInput:Argument too long"
    ELSE IF any_char(Head(args), DANGEROUS_CHARS) THEN "DangerousCommand"
    ELSE validate_arguments_each(Tail(args), cfg)

\* validation::validate_arguments (security.rs)
validate_arguments(args, cfg) ==
    IF Len(args) > cfg.max_arg_count THEN "InvalidInput:Too many arguments"
    ELSE validate_arguments_each(args, cfg)

\* security::validate_command_args (error.rs)
RECURSIVE validate_command_args(_)
validate_command_args(args) ==
    IF args = <<>> THEN "Ok"
    ELSE IF any_char(Head(args), DANGEROUS_CHARS_ERROR_RS)
    THEN "DangerousCommand"
    ELSE IF Len(Head(args)) > ARG_LENGTH_LIMIT
    THEN "InvalidInput:Argument too long"
    ELSE validate_command_args(Tail(args))

\* validation::validate_args (config.rs)
validation_validate_args(cfg, args) ==
    IF Len(args) > cfg.max_arg_count THEN "InvalidInput:Too many arguments"
    ELSE IF \E k \in DOMAIN args : Len(args[k]) > cfg.max_command_length
    THEN "InvalidInput:Argument too long"
    ELSE "Ok"

NoCheck == [fn |-> "none", arg |-> <<>>, result |-> "none"]

CheckIdle == check_last = NoCheck

\* the validators start from a configuration and have not been called
CheckInit ==
    /\ config \in CheckConfigs
    /\ vc_last = NoValidation

\* a validator fn was called with arg and returned res
Called(fn, arg, res) ==
    /\ check_last = NoCheck
    /\ check_last' = [fn |-> fn, arg |-> arg, result |-> res]
    /\ UNCHANGED <<rate_vars, guard_vars, policy_vars, pipe_vars, resolve_vars,
                   parse_vars>>

ValidateArguments(args) ==
    Called("validate_arguments", args, validate_arguments(args, config))

ValidateCommandArgs(args) ==
    Called("validate_command_args", args, validate_command_args(args))

ValidateArgs(args) ==
    Called("validate_args", args, validation_validate_args(config, args))

NextArgs ==
    \E args \in CheckedArgLists :
        \/ ValidateArguments(args)
        \/ ValidateCommandArgs(args)
        \/ ValidateArgs(args)

(***************************************************************************)
(* The process ceiling: SecurityManager::can_start_process                 *)
(***************************************************************************)

\* a small ceiling of background processes, one the threads can reach
SmallBackgroundProcesses == 2

\* the configurations can_start_process runs under
StartConfigs ==
    {DefaultConfig,
     [DefaultConfig EXCEPT !.max_background_processes = SmallBackgroundProcesses]}

\* mutant of can_start_process: the counter is not looked at
can_start_process_unchecked(current, cfg) == "Ok"

\* mutant of can_start_process: the ceiling itself is still allowed
can_start_process_above(current, cfg) ==
    IF current > cfg.max_background_processes THEN "ResourceLimitExceeded"
    ELSE "Ok"

\* SecurityManager::can_start_process, given the value it loads
can_start_process(current, cfg) ==
    IF current >= cfg.max_background_processes THEN "ResourceLimitExceeded"
    ELSE "Ok"

\* a thread calls can_start_process: one atomic load and a comparison
CanStartProcess ==
    /\ check_last' = [fn |-> "can_start_process", arg |-> <<active_processes>>,
                      result |-> can_start_process(active_processes, config)]
    /\ UNCHANGED <<rate_vars, guard_vars, policy_vars, pipe_vars, resolve_vars,
                   parse_vars>>

StartInit ==
    /\ config \in StartConfigs
    /\ vc_last = NoValidation

NextStart ==
    \/ NextGuard
    \/ CanStartProcess

\* thread t calls can_start_process before it starts a process, and goes on
\* only when the call returned Ok
AdmitProcess(t) ==
    /\ th_pc[t] = "run"
    /\ guards[t] < MaxGuards
    /\ created < MaxCreated
    /\ can_start_process(active_processes, config) = "Ok"
    /\ th_pc' = [th_pc EXCEPT ![t] = "admitted"]
    /\ UNCHANGED <<active_processes, guards, created, dropped>>
    /\ UNCHANGED <<rate_vars, policy_vars, pipe_vars, fn_vars>>

\* thread t, admitted, calls register_process and keeps the guard
RegisterAdmitted(t) ==
    /\ th_pc[t] = "admitted"
    /\ active_processes' = fetch_add(active_processes)
    /\ guards' = [guards EXCEPT ![t] = @ + 1]
    /\ created' = created + 1
    /\ th_pc' = [th_pc EXCEPT ![t] = "run"]
    /\ UNCHANGED dropped
    /\ UNCHANGED <<rate_vars, policy_vars, pipe_vars, fn_vars>>

NextAdmit ==
    \/ \E t \in Threads : AdmitProcess(t)
    \/ \E t \in Threads : RegisterAdmitted(t)
    \/ \E t \in Threads, path \in ExitPaths : ScopeExit(t, path)
    \/ \E t \in Threads : DropGuard(t)

(***************************************************************************)
(* Monitored execution: monitoring::execute_with_monitoring (security.rs)  *)
(***************************************************************************)

\* the commands run with monitoring, the task that runs them and the thread
\* that holds ProcessGuards meanwhile
MonitoredCommands == {"ls"}
Monitors == {"c1"}
GuardHolders == {"t1"}

\* the ways `timeout(.., Command::new(command).args(args).output()).await`
\* ends: the output of the exited child, a failed spawn, or the timeout
\* with the child left running
OutputEnds == {"output", "spawn_error", "timeout"}

\* Stdio::null(), the standard input of a child run with output()
Null == [kind |-> "null", path |-> "", pipe |-> 0, append |-> FALSE]

\* the child of Command::output(): no input, its output captured
MonitoredChild(command, status) ==
    [stage |-> 0, program |-> command, args |-> <<>>, stdin |-> Null,
     stdout |-> Pipe(0), status |-> status, code |-> 0,
     reaped |-> (status = "exited"), wrote |-> FALSE]

\* execute_with_monitoring returned res for command
MonReturned(t, command, res) ==
    /\ check_last' = [fn |-> "execute_with_monitoring", arg |-> <<command>>,
                      result |-> res]
    /\ rl_threads' = [rl_threads EXCEPT ![t] = IdleCaller]

\* security_manager.check_rate_limit(&format!("cmd:{}", command), config)?
MonRateLimit(t, command) ==
    LET key == "cmd:" \o command
        r   == check_rate_limit(rate_limiter, key, now)
    IN  /\ rl_threads[t].pc = "idle"
        /\ Len(procs) < MaxSpawns
        /\ rate_limiter' = r.limiter
        /\ rl_last' = [key |-> key, time |-> now, result |-> r.result]
        /\ IF r.result = "Ok"
           THEN /\ rl_accepted' = [rl_accepted EXCEPT ![key] = Append(@, now)]
                /\ rl_threads' = [rl_threads EXCEPT
                                     ![t] = [pc |-> "can_start", key |-> key,
                                             now |-> now]]
                /\ check_last' = [fn |-> "execute_with_monitoring",
                                  arg |-> <<command>>, result |-> "running"]
           ELSE /\ MonReturned(t, command, "ResourceLimitExceeded:rate")
                /\ UNCHANGED rl_accepted
        /\ UNCHANGED <<now, guard_vars, policy_vars, pipe_vars, resolve_vars,
                       parse_vars>>

\* security_manager.can_start_process(config)?
MonCanStart(t) ==
    /\ rl_threads[t].pc = "can_start"
    /\ IF can_start_process(active_processes, config) = "Ok"
       THEN /\ rl_threads' = [rl_threads EXCEPT ![t].pc = "output"]
            /\ UNCHANGED check_last
       ELSE MonReturned(t, check_last.arg[1], "ResourceLimitExceeded:processes")
    /\ UNCHANGED <<now, rate_limiter, rl_accepted, rl_last, guard_vars,
                   policy_vars, pipe_vars, resolve_vars, parse_vars>>

\* the command is run to its end, then record_command and the match on result
MonOutput(t, end) ==
    LET command == check_last.arg[1]
    IN  /\ rl_threads[t].pc = "output"
        /\ procs' = IF end = "output"
                    THEN Append(procs, MonitoredChild(command, "exited"))
                    ELSE IF end = "timeout"
                    THEN Append(procs, MonitoredChild(command, "running"))
                    ELSE procs
        /\ command_history' = record_command(command_history, command, now, 0)
        /\ MonReturned(t, command,
                       IF end = "output" THEN "Ok"
                       ELSE IF end = "timeout" THEN "ResourceLimitExceeded:timeout"
                       ELSE "CommandExecution")
        /\ UNCHANGED <<commands, pc, i, children, prev_stdout, w, result,
                       wait_failed, fs_vars>>
        /\ UNCHANGED <<now, rate_limiter, rl_accepted, rl_last, guard_vars,
                       policy_vars, resolve_vars, parse_vars>>

NextMonitor ==
    \/ \E t \in Monitors, command \in MonitoredCommands : MonRateLimit(t, command)
    \/ \E t \in Monitors : MonCanStart(t)
    \/ \E t \in Monitors, end \in OutputEnds : MonOutput(t, end)
    \/ \E t \in GuardHolders : RegisterProcess(t)
    \/ \E t \in GuardHolders, path \in ExitPaths : ScopeExit(t, path)
    \/ \E t \in GuardHolders : DropGuard(t)

(***************************************************************************)
(* Path validation: validation::validate_file_path (security.rs) and       *)
(* security::validate_path (error.rs)                                      *)
(***************************************************************************)

\* the most segments of a checked path
MaxPathSegments == 2

\* the longest path security::validate_path takes, in bytes
PATH_LENGTH_LIMIT == 4096

\* U+0000, written as a form feed: both are control characters, and a string
\* of this module cannot hold U+0000
NUL == "\f"

\* str::starts_with
StartsWith(str, prefix) ==
    /\ Len(str) >= Len(prefix)
    /\ SubSeq(str, 1, Len(prefix)) = prefix

\* the segments paths are built from: the allowed directories of both
\* validators, names that only begin like one, a directory outside every
\* list, the parent directory, and a name that holds two dots
PathSegments ==
    {"tmp", "tmpfoo", "var", "home", "homework", "usr", "bin", "etc", "..",
     "a..b"}

\* the checked paths: relative and absolute ones of up to MaxPathSegments
\* segments, one with a NUL and one longer than PATH_LENGTH_LIMIT
CheckedPaths ==
    {lead \o join(segs, "/") :
        lead \in {"", "/"},
        segs \in UNION {[1..n -> PathSegments] : n \in 0..MaxPathSegments}}
    \cup {"a" \o NUL, Repeat("a", PATH_LENGTH_LIMIT + 1)}

\* the configurations the path validator runs under
PathConfigs ==
    {DefaultConfig, [DefaultConfig EXCEPT !.validate_paths = FALSE]}

\* Path::is_absolute on Unix
is_absolute(path) == StartsWith(path, "/")

\* allowed_dirs of validation::validate_file_path
ALLOWED_DIRS == {"/tmp", "/var/tmp", "/home", "/Users"}

\* validation::validate_file_path: the metadata of the path is read and
\* nothing is done with it
validate_file_path(path, cfg) ==
    IF ~cfg.validate_paths THEN "Ok"
    ELSE IF Contains(path, "..") THEN "PathTraversal:" \o path
    ELSE IF /\ is_absolute(path)
            /\ ~\E dir \in ALLOWED_DIRS : StartsWith(path, dir)
    THEN "PathTraversal:Absolute path not in allowed directories"
    ELSE "Ok"

\* allowed_prefixes of security::is_allowed_absolute_path
ALLOWED_PREFIXES ==
    {"/usr/local/bin", "/usr/bin", "/bin", "/opt", "/home", "/Users"}

\* security::is_allowed_absolute_path
is_allowed_absolute_path(path) ==
    \E prefix \in ALLOWED_PREFIXES : StartsWith(path, prefix)

\* security::validate_path
validate_path(path) ==
    IF /\ Contains(path, "..") \/ Contains(path, "../") \/ StartsWith(path, "/")
       /\ StartsWith(path, "/")
       /\ ~is_allowed_absolute_path(path)
    THEN "PathTraversal:" \o path
    ELSE IF Contains(path, NUL) THEN "InvalidInput:Null byte detected"
    ELSE IF Len(path) > PATH_LENGTH_LIMIT THEN "InvalidInput:Path too long"
    ELSE "Ok"

\* the path validators start from a configuration and have not been called
PathInit ==
    /\ config \in PathConfigs
    /\ vc_last = NoValidation

ValidateFilePath(path) ==
    Called("validate_file_path", <<path>>, validate_file_path(path, config))

ValidatePath(path) ==
    Called("validate_path", <<path>>, validate_path(path))

NextPath ==
    \E path \in CheckedPaths :
        \/ ValidateFilePath(path)
        \/ ValidatePath(path)

(***************************************************************************)
(* Input sanitization: validation::sanitize_input (security.rs)            *)
(***************************************************************************)

\* the most pieces of a sanitized input
MaxPieces == 3

\* a character of two bytes in UTF-8 (such as U+00E9), written as one letter:
\* the length of a str and the index of a slice count bytes
WIDE == "E"

\* the pieces inputs are built from: a letter, the control characters, the
\* two-byte character, and the opening and closing text of each pattern
Pieces ==
    {"a", WIDE, NUL, "\r", "\n", "\t", "$(", ")", GRAVE, "${", "}", ";", "&&",
     "||"}

RawInputs == {join(ps, "") : ps \in UNION {[1..n -> Pieces] : n \in 0..MaxPieces}}

\* the configurations the sanitizer runs under
SanitizeConfigs ==
    {DefaultConfig,
     [DefaultConfig EXCEPT !.max_command_length = SmallCommandLength],
     [DefaultConfig EXCEPT !.sanitize_input = FALSE]}

\* char::is_control, on the characters of Pieces
is_control(ch) == ch \in {NUL, "\r", "\n", "\t"}

\* str.chars().filter(keep).collect(), keep given as the set of kept chars
RECURSIVE filter_chars(_, _)
filter_chars(str, dropped_chars) ==
    IF str = "" THEN ""
    ELSE (IF Char(str, 1) \in dropped_chars THEN "" ELSE Char(str, 1))
             \o filter_chars(SubSeq(str, 2, Len(str)), dropped_chars)

\* sanitized.replace('\0', "")
replace_nul(str) == filter_chars(str, {NUL})

\* .filter(|&c| !c.is_control() || c == '\n' || c == '\t')
filter_control(str) == filter_chars(str, {NUL, "\r"})

\* char::len_utf8, on the characters of Pieces
len_utf8(ch) == IF ch = WIDE THEN 2 ELSE 1

\* str::len: the length in bytes
RECURSIVE byte_len(_)
byte_len(str) ==
    IF str = "" THEN 0
    ELSE len_utf8(Char(str, 1)) + byte_len(SubSeq(str, 2, Len(str)))

\* str::is_char_boundary
is_char_boundary(str, n) ==
    \E k \in 0..Len(str) : byte_len(SubSeq(str, 1, k)) = n

\* &str[..n] where n is a char boundary
slice_to(str, n) ==
    LET k == CHOOSE k \in 0..Len(str) : byte_len(SubSeq(str, 1, k)) = n
    IN  SubSeq(str, 1, k)

\* suspicious_patterns of check_suspicious_patterns: each is an opening
\* text, `.*`, and a closing text
SUSPICIOUS_PATTERNS ==
    {<<"$(", ")">>, <<GRAVE, GRAVE>>, <<"${", "}">>, <<";", ";">>,
     <<"&&", "&&">>, <<"||", "||">>}

\* Regex::is_match for a pattern open.*close: `.` matches every character
\* but the newline
is_match(pattern, str) ==
    LET open == pattern[1]
        close == pattern[2]
    IN  \E p \in 1..(Len(str) - Len(open) + 1) :
        \E q \in (p + Len(open))..(Len(str) - Len(close) + 1) :
            /\ SubSeq(str, p, p + Len(open) - 1) = open
            /\ SubSeq(str, q, q + Len(close) - 1) = close
            /\ ~Contains(SubSeq(str, p + Len(open), q - 1), "\n")

\* check_suspicious_patterns returns Err
suspicious(str) == \E pattern \in SUSPICIOUS_PATTERNS : is_match(pattern, str)

\* validation::sanitize_input: a slice that does not end on a char boundary
\* panics
sanitize_input(raw, cfg) ==
    IF ~cfg.sanitize_input THEN "Ok:" \o raw
    ELSE LET sanitized == filter_control(replace_nul(raw))
         IN  IF suspicious(sanitized) THEN "DangerousCommand"
             ELSE IF byte_len(sanitized) > cfg.max_command_length
             THEN IF is_char_boundary(sanitized, cfg.max_command_length)
                  THEN "Ok:" \o slice_to(sanitized, cfg.max_command_length)
                  ELSE "panic"
             ELSE "Ok:" \o sanitized

\* the sanitizer starts from a configuration and has not been called
SanitizeInit ==
    /\ config \in SanitizeConfigs
    /\ vc_last = NoValidation

SanitizeInput(raw) ==
    Called("sanitize_input", <<raw>>, sanitize_input(raw, config))

NextSanitize == \E raw \in RawInputs : SanitizeInput(raw)

(***************************************************************************)
(* Script resolution: CommandExecutor::resolve_command                     *)
(***************************************************************************)

\* the longest argument list resolve_command is applied to
MaxArgs == 2

\* program names: the ones of the tests in executor.rs, and names that hold
\* a script suffix without ending in it
Programs ==
    {"ls", "script.py", "script.rb", "script.js", ".py", "py", "a.pyc",
     "a.js.txt", "x.rb.sh"}

ArgWords == {"arg1", "-la", "b.py"}

ArgLists == UNION {[1..n -> ArgWords] : n \in 0..MaxArgs}

NoResolve == [program |-> "", args |-> <<>>, cmd |-> "", actual_args |-> <<>>]

ResolveIdle == rc_last = NoResolve

\* let (actual_cmd, actual_args) = self.resolve_command(program, args)?
ResolveCommand(program, args) ==
    /\ rc_last' = [program |-> program, args |-> args,
                   cmd |-> resolve_command(program, args).cmd,
                   actual_args |-> resolve_command(program, args).args]
    /\ UNCHANGED <<rate_vars, guard_vars, policy_vars, pipe_vars, parse_vars,
                   check_vars>>

NextResolve ==
    \E program \in Programs, args \in ArgLists : ResolveCommand(program, args)

(***************************************************************************)
(* Specifications                                                          *)
(***************************************************************************)

FnIdle == ResolveIdle /\ ParseIdle /\ CheckIdle

InitRate == RateInit /\ GuardInit /\ PolicyIdle /\ PipeIdle /\ FnIdle

SpecRate == InitRate /\ [][NextRate]_vars

InitGuard == RateInit /\ GuardInit /\ PolicyIdle /\ PipeIdle /\ FnIdle

SpecGuard == InitGuard /\ [][NextGuard]_vars

InitPolicy == RateInit /\ GuardInit /\ PolicyInit /\ PipeIdle /\ FnIdle

SpecPolicy == InitPolicy /\ [][NextPolicy]_vars

InitPipe == RateInit /\ GuardInit /\ PipeInit /\ FnIdle

SpecPipe == InitPipe /\ [][NextPipe]_vars

InitResolve == RateInit /\ GuardInit /\ PolicyIdle /\ PipeIdle /\ FnIdle

SpecResolve == InitResolve /\ [][NextResolve]_vars

InitParse == RateInit /\ GuardInit /\ PolicyIdle /\ PipeIdle /\ FnIdle

SpecParse == InitParse /\ [][NextParse]_vars

InitWords == RateInit /\ GuardInit /\ PolicyIdle /\ PipeIdle /\ FnIdle

SpecWords == InitWords /\ [][NextWords]_vars

InitArgs == RateInit /\ GuardInit /\ CheckInit /\ PipeIdle /\ FnIdle

SpecArgs == InitArgs /\ [][NextArgs]_vars

InitPath == RateInit /\ GuardInit /\ PathInit /\ PipeIdle /\ FnIdle

SpecPath == InitPath /\ [][NextPath]_vars

InitSanitize == RateInit /\ GuardInit /\ SanitizeInit /\ PipeIdle /\ FnIdle

SpecSanitize == InitSanitize /\ [][NextSanitize]_vars

InitStart == RateInit /\ GuardInit /\ StartInit /\ PipeIdle /\ FnIdle

SpecStart == InitStart /\ [][NextStart]_vars

InitCalls == RateInit /\ GuardInit /\ CallsInit /\ FnIdle

SpecCalls == InitCalls /\ [][NextCalls]_vars

InitCallers == RateInit /\ GuardInit /\ PolicyIdle /\ PipeIdle /\ FnIdle

SpecCallers == InitCallers /\ [][NextCallers]_vars

InitAdmit == RateInit /\ GuardInit /\ StartInit /\ PipeIdle /\ FnIdle

SpecAdmit == InitAdmit /\ [][NextAdmit]_vars

InitMonitor == RateInit /\ GuardInit /\ StartInit /\ PipeIdle /\ FnIdle

SpecMonitor == InitMonitor /\ [][NextMonitor]_vars

InitSegments == RateInit /\ GuardInit /\ PolicyIdle /\ PipeIdle /\ FnIdle

SpecSegments == InitSegments /\ [][NextSegments]_vars

InitQuoted == RateInit /\ GuardInit /\ PolicyIdle /\ PipeIdle /\ FnIdle

SpecQuoted == InitQuoted /\ [][NextQuoted]_vars

(***************************************************************************)
(* Claims                                                                  *)
(***************************************************************************)

\* the accepted calls for rl_last.key that came before the call rl_last
PriorAccepted ==
    IF rl_last.result = "Ok"
    THEN SubSeq(rl_accepted[rl_last.key], 1, Len(rl_accepted[rl_last.key]) - 1)
    ELSE rl_accepted[rl_last.key]

\* how many of the times in log lie less than WINDOW_SECS before t
InWindow(log, t) == Cardinality({n \in DOMAIN log : t - log[n] < WINDOW_SECS})

IsSuffix(s, l) == Len(s) <= Len(l) /\ s = SubSeq(l, Len(l) - Len(s) + 1, Len(l))

\* C1: a check_rate_limit call is accepted if and only if fewer than 10
\* accepted calls for its key lie within the 60 seconds before it; otherwise
\* it is refused with ResourceLimitExceeded.
C1_RateLimitWindow ==
    rl_last # NoCall =>
        /\ rl_last.result \in {"Ok", "ResourceLimitExceeded"}
        /\ (rl_last.result = "Ok") <=>
               (InWindow(PriorAccepted, rl_last.time) < RATE_LIMIT)

\* ten calls accepted at one instant, and the call 61 seconds later accepted
C1_Witness ==
    /\ rl_last.result = "Ok"
    /\ Len(rl_accepted[rl_last.key]) = RATE_LIMIT + 1
    /\ \A n \in 1..RATE_LIMIT :
          rl_accepted[rl_last.key][n] + WINDOW_SECS + 1 = rl_last.time

\* C2: a rejected call records nothing: the stored sequence of every key holds
\* only timestamps of accepted calls, and right after a rejection the key's
\* sequence is exactly its accepted timestamps less than 60 seconds old.
C2_RejectRecordsNothing ==
    /\ \A k \in DOMAIN rate_limiter : IsSuffix(rate_limiter[k], rl_accepted[k])
    /\ (rl_last.result = "ResourceLimitExceeded" /\ rl_last.time = now) =>
          /\ rate_limiter[rl_last.key] =
                SelectSeq(rl_accepted[rl_last.key],
                          LAMBDA time : now - time < WINDOW_SECS)
          /\ Len(rate_limiter[rl_last.key]) = RATE_LIMIT

\* a call rejected after older entries of its key were pruned
C2_Witness ==
    /\ rl_last.result = "ResourceLimitExceeded"
    /\ rl_last.time = now
    /\ Len(rl_accepted[rl_last.key]) > Len(rate_limiter[rl_last.key])


\* C3: the active-process counter equals the number of ProcessGuards created
\* and not yet dropped, under every interleaving of the threads; it never
\* underflows, and it is 0 again once every guard has been dropped.
C3_CounterBalanced ==
    /\ active_processes = created - dropped
    /\ active_processes = SumOver(guards, Threads)
    /\ active_processes <= created
    /\ (\A t \in Threads : guards[t] = 0) => active_processes = 0

\* one thread has dropped a guard on its error path and still unwinds, while
\* another thread holds two guards
C3_Witness ==
    \E t1, t2 \in Threads :
        /\ t1 # t2
        /\ th_pc[t1] = "error" /\ guards[t1] = 1
        /\ guards[t2] = 2
        /\ dropped >= 1
        /\ active_processes = 3

\* C7: a name in both the allow-set and the block-set is rejected by
\* validate_command; in config::validation the block-set is consulted before
\* the allow-set, so a blocked name of admissible length is always refused
\* as DangerousCommand(name), whatever the allow-set holds.
C7_BlockSetWins ==
    /\ (vc_last.fn = "config" /\ vc_last.name \in config.blocked_commands) =>
          /\ vc_last.result # "Ok"
          /\ Len(vc_last.name) <= config.max_command_length =>
                vc_last.result = "DangerousCommand"
    /\ (/\ vc_last.fn = "executor"
        /\ vc_last.name \in config.command_whitelist.list
        /\ vc_last.name \in config.command_blacklist.list) =>
          vc_last.result = "SecurityViolation:blacklist"

\* validate_command has refused a name that both sets hold
C7_Witness ==
    /\ vc_last.fn = "config"
    /\ vc_last.name \in config.allowed_commands \cap config.blocked_commands
    /\ vc_last.result = "DangerousCommand"

\* C8 as stated: validate_command accepts a name if and only if it is not in
\* the block-set and the allow-set is empty or contains it.
C8_AsStated ==
    /\ vc_last.fn = "config" =>
          ((vc_last.result = "Ok") <=>
             /\ vc_last.name \notin config.blocked_commands
             /\ \/ config.allowed_commands = {}
                \/ vc_last.name \in config.allowed_commands)
    /\ vc_last.fn = "executor" =>
          ((vc_last.result = "Ok") <=>
             /\ vc_last.name \notin config.command_blacklist.list
             /\ \/ config.command_whitelist.list = {}
                \/ vc_last.name \in config.command_whitelist.list)

\* C8 amended: config::validation::validate_command accepts a name if and
\* only if it is at most max_command_length long, not in the block-set, and
\* the allow-set is empty or contains it; CommandExecutor::validate_command
\* accepts if and only if the whitelist is absent or contains the name and the
\* blacklist is absent or does not contain it.
C8_AcceptIff ==
    /\ vc_last.fn = "config" =>
          ((vc_last.result = "Ok") <=>
             /\ Len(vc_last.name) <= config.max_command_length
             /\ vc_last.name \notin config.blocked_commands
             /\ \/ config.allowed_commands = {}
                \/ vc_last.name \in config.allowed_commands)
    /\ vc_last.fn = "executor" =>
          ((vc_last.result = "Ok") <=>
             /\ \/ ~config.command_whitelist.some
                \/ vc_last.name \in config.command_whitelist.list
             /\ \/ ~config.command_blacklist.some
                \/ vc_last.name \notin config.command_blacklist.list)

\* a name longer than max_command_length refused although no set excludes it
C8_Witness ==
    /\ vc_last.fn = "config"
    /\ config.allowed_commands = {}
    /\ vc_last.name \notin config.blocked_commands
    /\ vc_last.result = "InvalidInput"

\* stage k (from 0) of the submitted pipeline is one the executor's policy
\* refuses: its resolved program or one of its resolved arguments
StageViolates(k) ==
    LET cmd      == commands[k + 1]
        resolved == resolve_command(cmd.program, cmd.args)
    IN  /\ cmd.program # ""
        /\ \/ CommandExecutor_validate_command(config, resolved.cmd) # "Ok"
           \/ validate_args(config, resolved.args) # "Ok"

Stages == 0..(Len(commands) - 1)

SpawnedStages == {procs[p].stage : p \in DOMAIN procs}

\* the call has returned an error that arose inside the spawn loop
LoopError ==
    /\ pc = "returned"
    /\ result.status = "Err"
    /\ result.kind \notin {"Process:too_long", "Process:wait"}

\* C4 as stated: when some stage of the pipeline violates the command or
\* argument policy, no process of the pipeline is spawned.
C4_AsStated ==
    (\E k \in Stages : StageViolates(k)) => procs = <<>>

\* C5: when stage k fails validation, redirect opening or spawn, the call
\* returns that error at once: no stage from k on is spawned, and the stages
\* before k that were spawned are neither killed nor waited for.
C5_AbortLeavesEarlierStages ==
    /\ \A p \in DOMAIN procs : \A k \in 0..procs[p].stage : ~StageViolates(k)
    /\ LoopError =>
          /\ i = result.stage
          /\ SpawnedStages = {k \in 0..(result.stage - 1) : commands[k + 1].program # ""}
          /\ \A p \in DOMAIN procs :
                /\ procs[p].status \in {"running", "exited"}
                /\ ~procs[p].reaped
          /\ result.kind \in {"SecurityViolation:whitelist",
                              "SecurityViolation:blacklist",
                              "SecurityViolation:traversal",
                              "SecurityViolation:arglen"}
                <=> StageViolates(result.stage)

\* the third stage was refused while the two stages before it run on
C5_Witness ==
    /\ LoopError
    /\ result.stage = 2
    /\ Len(procs) = 2
    /\ \A p \in DOMAIN procs : procs[p].status = "running"

\* C6: a pipeline of more than max_pipeline_length commands is refused with
\* an error, no process spawned and no statistic recorded; a pipeline of
\* exactly max_pipeline_length commands is admitted.
C6_TooLongRejected ==
    pc # "idle" =>
        /\ Len(commands) > config.max_pipeline_length =>
              /\ pc = "returned"
              /\ result = Err("Process:too_long", 0)
              /\ procs = <<>>
              /\ command_history = <<>>
        /\ Len(commands) <= config.max_pipeline_length =>
              result.kind # "Process:too_long"

\* a pipeline one command longer than the maximum was refused
C6_Witness ==
    /\ pc = "returned"
    /\ Len(commands) = config.max_pipeline_length + 1
    /\ result.status = "Err"

AllNonEmpty == \A k \in Stages : commands[k + 1].program # ""

\* C9: in a pipeline whose stages all have a program, every non-final stage
\* writes to a pipe whose read end is the standard input of the next stage;
\* stage 0 reads from its input redirect when it has one, and only the final
\* stage writes to its output redirect.
C9_Wiring ==
    AllNonEmpty =>
        /\ \A p \in DOMAIN procs :
              LET pr  == procs[p]
                  n   == Len(commands)
                  cmd == commands[pr.stage + 1]
              IN  /\ pr.stage < n - 1 => pr.stdout = Pipe(pr.stage)
                  /\ pr.stage > 0 =>
                        /\ pr.stdin = Pipe(pr.stage - 1)
                        /\ \E q \in DOMAIN procs :
                              /\ procs[q].stage = pr.stage - 1
                              /\ procs[q].stdout = Pipe(pr.stage - 1)
                  /\ pr.stage = 0 =>
                        pr.stdin = IF cmd.input_redirect.some
                                   THEN File(cmd.input_redirect.path, FALSE)
                                   ELSE Inherit
                  /\ pr.stage = n - 1 =>
                        pr.stdout = IF cmd.output_redirect.some
                                    THEN File(cmd.output_redirect.path, cmd.append)
                                    ELSE Inherit
                  /\ pr.stdout.kind = "file" => pr.stage = n - 1
        /\ (pc = "loop" /\ i > 0 /\ i < Len(commands)) =>
              prev_stdout = SomePipe(i - 1)

\* three stages spawned, each written with both redirects
C9_Witness ==
    /\ AllNonEmpty
    /\ Len(commands) = 3
    /\ Len(procs) = 3
    /\ \A k \in Stages : /\ commands[k + 1].input_redirect.some
                         /\ commands[k + 1].output_redirect.some

Background == commands # <<>> /\ commands[Len(commands)].background

\* the spawn loop of the call ran to its end
LoopCompleted == commands # <<>> /\ i = Len(commands) /\ pc \in {"wait", "returned"}

\* C10 as stated: the call waits for every spawned child exactly when the last
\* command's background flag is false and returns only after all of them
\* have exited; with the flag set it waits for none.
C10_AsStated ==
    (pc = "returned" /\ LoopCompleted) =>
        IF Background
        THEN \A p \in DOMAIN procs : ~procs[p].reaped
        ELSE \A p \in DOMAIN procs : procs[p].reaped /\ procs[p].status = "exited"

\* C10 amended: after the spawn loop the call waits for the spawned children,
\* in spawn order, exactly when the last command's background flag is false,
\* and returns Ok only after all of them have exited; a wait that fails ends
\* the call at once with ProcessError, the later children not waited for;
\* with the flag set the call returns Ok without waiting for any child.
C10_WaitUnlessBackground ==
    /\ \A p \in DOMAIN procs :
          procs[p].reaped =>
              /\ procs[p].status = "exited"
              /\ ~Background
              /\ LoopCompleted
              /\ \A q \in 1..(p - 1) : procs[q].reaped
    /\ pc = "wait" => ~Background /\ LoopCompleted
    /\ (pc = "returned" /\ LoopCompleted) =>
          IF Background
          THEN result = Ok /\ \A p \in DOMAIN procs : ~procs[p].reaped
          ELSE IF result = Ok
          THEN \A p \in DOMAIN procs : procs[p].reaped
          ELSE /\ result.kind = "Process:wait"
               /\ \A p \in DOMAIN procs : procs[p].reaped <=> p <= result.stage

\* the wait for the second child failed while the third still runs
C10_Witness ==
    /\ pc = "returned"
    /\ result = Err("Process:wait", 1)
    /\ Len(procs) = 3
    /\ procs[1].reaped
    /\ procs[3].status = "running"

\* C11: a child's non-zero exit status is never an error of execute_pipeline:
\* once the spawn loop has run to its end the call returns Err, and then
\* ShellError::Process, exactly when a child.wait() itself failed, and Ok
\* otherwise.
C11_ExitStatusNotAnError ==
    (pc = "returned" /\ LoopCompleted) =>
        /\ result.status \in {"Ok", "Err"}
        /\ result.status = "Err" <=> wait_failed
        /\ result.status = "Err" => result.kind = "Process:wait"

\* the call waited for a child that exited with a non-zero status, and
\* returned Ok
C11_Witness ==
    /\ pc = "returned"
    /\ result = Ok
    /\ ~wait_failed
    /\ \E p \in DOMAIN procs : procs[p].reaped /\ procs[p].code = 1

\* C12: for the child of a final stage with an output redirect, the redirect
\* file holds, with append = true, the content it had before the call and
\* after it what the child wrote, and with append = false only what the child
\* wrote; so a file left by `>` and then redirected to with `>>` holds the
\* first content, then the second.
C12_AppendKeepsCreateReplaces ==
    \A p \in DOMAIN procs :
        LET cmd     == commands[procs[p].stage + 1]
            path    == cmd.output_redirect.path
            prior   == IF cmd.append THEN files_before[path].data ELSE <<>>
            written == IF procs[p].wrote THEN <<OUTPUT>> ELSE <<>>
        IN  (procs[p].stage = Len(commands) - 1 /\ cmd.output_redirect.some) =>
                files[path] = FileOf(prior \o written)

\* a child appended to a file that held content: the content, then the output
C12_Witness ==
    /\ \E p \in DOMAIN procs :
          /\ commands[procs[p].stage + 1].append
          /\ procs[p].wrote
    /\ files_before["out"] = FileOf(<<"initial content">>)
    /\ files["out"] = FileOf(<<"initial content", OUTPUT>>)

\* a child wrote to a file that held content and was opened with append =
\* false: the output alone
C12_WitnessReplace ==
    /\ \E p \in DOMAIN procs :
          /\ ~commands[procs[p].stage + 1].append
          /\ procs[p].wrote
    /\ files_before["out"] = FileOf(<<"initial content">>)
    /\ files["out"] = FileOf(<<OUTPUT>>)

\* the interpreter of a script suffix
Interpreter(suffix) ==
    CASE suffix = ".py" -> "python3"
      [] suffix = ".rb" -> "ruby"
      [] suffix = ".js" -> "node"

\* the last three characters of a name, "" for a shorter name
Suffix3(name) ==
    IF Len(name) >= 3 THEN SubSeq(name, Len(name) - 2, Len(name)) ELSE ""

\* C13: resolve_command maps a program whose name ends in .py, .rb or .js to
\* python3, ruby or node, with the original program name put before the
\* unchanged arguments; every other program and its arguments pass through.
C13_ResolveScripts ==
    rc_last # NoResolve =>
        IF Suffix3(rc_last.program) \in {".py", ".rb", ".js"}
        THEN /\ rc_last.cmd = Interpreter(Suffix3(rc_last.program))
             /\ Len(rc_last.actual_args) = Len(rc_last.args) + 1
             /\ rc_last.actual_args[1] = rc_last.program
             /\ \A k \in DOMAIN rc_last.args :
                   rc_last.actual_args[k + 1] = rc_last.args[k]
        ELSE /\ rc_last.cmd = rc_last.program
             /\ rc_last.actual_args = rc_last.args

\* resolve_command("script.rb", ["arg1"]) gave ("ruby", ["script.rb", "arg1"])
C13_Witness ==
    /\ rc_last.program = "script.rb"
    /\ rc_last.args = <<"arg1">>
    /\ rc_last.cmd = "ruby"
    /\ rc_last.actual_args = <<"script.rb", "arg1">>

\* the quote character that is open just before character k of a line, or ""
RECURSIVE QuoteAt(_, _)
QuoteAt(line, k) ==
    IF k = 1 THEN ""
    ELSE LET q  == QuoteAt(line, k - 1)
             ch == Char(line, k - 1)
         IN  IF q = "" THEN (IF ch \in {"\"", "'"} THEN ch ELSE "")
             ELSE IF ch = q THEN "" ELSE q

\* the positions of the pipes of a line that are outside quotes
UnquotedPipes(line) ==
    {k \in 1..Len(line) : Char(line, k) = "|" /\ QuoteAt(line, k) = ""}

\* the ends of the stretches between unquoted pipes: the line's two ends and
\* the pipes
Bounds(line) == {0, Len(line) + 1} \cup UnquotedPipes(line)

\* some stretch before, between or after the unquoted pipes is white space
HasEmptySegment(line) ==
    /\ UnquotedPipes(line) # {}
    /\ \E b1, b2 \in Bounds(line) :
          /\ b1 < b2
          /\ \A b \in Bounds(line) : ~(b1 < b /\ b < b2)
          /\ \A j \in (b1 + 1)..(b2 - 1) : Char(line, j) \in WhiteSpace

\* C14: for every line with an unquoted pipe and a segment before, between or
\* after the unquoted pipes that is empty or white space only, parse_command
\* returns an error.
C14_EmptySegmentIsError ==
    (parsed # NoParse /\ HasEmptySegment(input)) => parsed.status = "Err"

\* `a |` was refused
C14_Witness ==
    /\ input = "a |"
    /\ HasEmptySegment(input)
    /\ parsed = ParseErr("Missing command after pipe")

\* C15 as stated: only the pipes outside quotes separate pipeline stages: an
\* accepted line yields at most one Command more than it has unquoted pipes,
\* and a line without an unquoted pipe is never refused for a missing command
\* after a pipe.
C15_AsStated ==
    /\ parsed.status = "Ok" =>
          Len(parsed.commands) <= Cardinality(UnquotedPipes(input)) + 1
    /\ UnquotedPipes(input) = {} =>
          parsed # ParseErr("Missing command after pipe")

\* the parts of the last segment of a line, and whether part k of a list is
\* the operand of a redirect: the part before it is a redirect operator that
\* is not itself an operand
LastParts(line) ==
    tokenize(pipe_commands(trim(line))[Len(pipe_commands(trim(line)))])

RECURSIVE IsOperand(_, _)
IsOperand(parts, k) ==
    /\ k > 1
    /\ parts[k - 1] \in {"<", ">", ">>"}
    /\ ~IsOperand(parts, k - 1)

\* a list of parts holds a `&` that stands for itself, not for a file name
HasBackgroundMark(parts) ==
    \E k \in DOMAIN parts : parts[k] = "&" /\ ~IsOperand(parts, k)

\* C16 as stated: when the final segment of an accepted line holds a
\* standalone `&`, the last Command has background = true.
C16_AsStated ==
    (parsed.status = "Ok" /\ HasBackgroundMark(LastParts(input))) =>
        parsed.commands[Len(parsed.commands)].background

\* C17 as stated: no Command but the last has background = true, and a `&`
\* never becomes a program or an argument.
C17_AsStated ==
    parsed.status = "Ok" =>
        /\ \A k \in 1..(Len(parsed.commands) - 1) :
              ~parsed.commands[k].background
        /\ \A k \in DOMAIN parsed.commands :
              /\ parsed.commands[k].program # "&"
              /\ \A a \in DOMAIN parsed.commands[k].args :
                    parsed.commands[k].args[a] # "&"

\* the positions of the parts that are operators of ops, and of the parts that
\* are neither an operator nor the operand of a redirect
OperatorsAt(parts, ops) ==
    {k \in DOMAIN parts : parts[k] \in ops /\ ~IsOperand(parts, k)}

PlainAt(parts) ==
    {k \in DOMAIN parts :
        parts[k] \notin {"<", ">", ">>", "&"} /\ ~IsOperand(parts, k)}

Smallest(S) == CHOOSE k \in S : \A m \in S : k <= m

Largest(S) == CHOOSE k \in S : \A m \in S : m <= k

\* the parts at the positions of S, in their order in the line
PartsAt(parts, S) ==
    [j \in 1..Cardinality(S) |->
        parts[CHOOSE k \in S : Cardinality({m \in S : m < k}) = j - 1]]

\* the operand of the last operator of ops, if there is one
LastOperand(parts, ops) ==
    IF OperatorsAt(parts, ops) = {} THEN NoPath
    ELSE SomePath(parts[Largest(OperatorsAt(parts, ops)) + 1])

\* C18: an accepted line of one segment gives one Command: its program is the
\* first part that is no operator and no operand, its input_redirect the part
\* after the last `<`, its output_redirect the part after the last `>` or
\* `>>`, and its args the remaining plain parts in their order, without the
\* operators and their operands.
C18_SingleSegmentFields ==
    (parsed.status = "Ok" /\ Len(pipe_commands(trim(input))) = 1) =>
        LET parts == tokenize(trim(input))
        IN  /\ Len(parsed.commands) = 1
            /\ PlainAt(parts) # {}
            /\ parsed.commands[1].program = parts[Smallest(PlainAt(parts))]
            /\ parsed.commands[1].args =
                   PartsAt(parts, PlainAt(parts) \ {Smallest(PlainAt(parts))})
            /\ parsed.commands[1].input_redirect = LastOperand(parts, {"<"})
            /\ parsed.commands[1].output_redirect =
                   LastOperand(parts, {">", ">>"})

\* `a a b > b` gave the program a with the arguments a, b and the output b
C18_Witness ==
    /\ input = "a a b > b"
    /\ parsed.status = "Ok"
    /\ parsed.commands[1].program = "a"
    /\ parsed.commands[1].args = <<"a", "b">>
    /\ parsed.commands[1].input_redirect = NoPath
    /\ parsed.commands[1].output_redirect = SomePath("b")

\* `a < b > a` gave the program a with both redirects and no argument
C18_WitnessBoth ==
    /\ input = "a < b > a"
    /\ parsed = ParseOk(<<Cmd("a", <<>>, SomePath("b"), SomePath("a"), FALSE, FALSE)>>)

\* C19: in every Command of an accepted line that has an output redirect,
\* append is true exactly when the last output redirect operator of its
\* segment, the one that took effect, is `>>`; after a last `>` it is false.
C19_AppendFollowsLastRedirect ==
    (/\ parsed.status = "Ok"
     /\ Len(parsed.commands) = Len(pipe_commands(trim(input)))) =>
        \A k \in DOMAIN parsed.commands :
            LET parts == tokenize(pipe_commands(trim(input))[k])
                outs  == OperatorsAt(parts, {">", ">>"})
            IN  parsed.commands[k].output_redirect.some =>
                    /\ outs # {}
                    /\ parsed.commands[k].output_redirect.path =
                           parts[Largest(outs) + 1]
                    /\ parsed.commands[k].append <=>
                           parts[Largest(outs)] = ">>"

\* `a > b >> a`: the `>>` took effect, append is true
C19_Witness ==
    /\ input = "a > b >> a"
    /\ parsed =
           ParseOk(<<Cmd("a", <<>>, NoPath, SomePath("a"), TRUE, FALSE)>>)

\* a line that is one span in quotes q: q, a body without q, q
IsQuotedSpan(line, q) ==
    /\ Len(line) >= 3
    /\ Char(line, 1) = q
    /\ Char(line, Len(line)) = q
    /\ \A k \in 2..(Len(line) - 1) : Char(line, k) # q

\* C20 as stated: a span in matching quotes becomes one token, its white
\* space and the quotes of the other kind kept and its own quotes removed: a
\* line that is one such span, its body no operator, gives one Command whose
\* program is the body.
C20_AsStated ==
    \A q \in {"\"", "'"} :
        (/\ parsed # NoParse
         /\ IsQuotedSpan(input, q)
         /\ SubSeq(input, 2, Len(input) - 1) \notin {"<", ">", ">>", "&"}) =>
            parsed = ParseOk(<<Cmd(SubSeq(input, 2, Len(input) - 1), <<>>,
                                  NoPath, NoPath, FALSE, FALSE)>>)

\* the message of the error for a redirect operator without a file
MissingFile(op) ==
    IF op = "<" THEN "Missing input file after '<'"
    ELSE "Missing output file after '" \o op \o "'"

\* the parts of segment k of a line
PartsOf(line, k) == tokenize(pipe_commands(trim(line))[k])

\* the last part of a list is a redirect operator
EndsInRedirect(parts) ==
    parts # <<>> /\ parts[Len(parts)] \in {"<", ">", ">>"}

\* the last part of a list is a redirect operator with no operand after it
Dangling(parts) ==
    EndsInRedirect(parts) /\ ~IsOperand(parts, Len(parts))

\* a segment the parser stops at: a dangling operator, or no program
Stops(parts) == Dangling(parts) \/ (parts # <<>> /\ PlainAt(parts) = {})

\* C21 as stated: a `<`, `>` or `>>` that is the last token of its segment
\* makes parse_command fail with the error that names that operator.
C21_AsStated ==
    parsed # NoParse =>
        \A k \in DOMAIN pipe_commands(trim(input)) :
            EndsInRedirect(PartsOf(input, k)) =>
                parsed = ParseErr(MissingFile(
                             PartsOf(input, k)[Len(PartsOf(input, k))]))

\* C21 amended: a `<`, `>` or `>>` that is the last token of its segment and
\* is not itself the operand of the redirect operator before it makes
\* parse_command fail; the error names that operator when no segment of the
\* line is empty and no earlier segment has a dangling operator or lacks a
\* program (an empty segment gives the missing-command error, an earlier
\* segment its own error).  In an accepted line every redirect operator has
\* exactly one operand: the parts of a segment are its program, its
\* arguments, its `&` marks, and two parts per redirect.
C21_DanglingRedirect ==
    parsed # NoParse =>
        LET segments == pipe_commands(trim(input))
        IN  /\ \A k \in DOMAIN segments :
                  Dangling(PartsOf(input, k)) =>
                      /\ parsed.status = "Err"
                      /\ (/\ ~missing_command(segments)
                          /\ \A j \in 1..(k - 1) : ~Stops(PartsOf(input, j))) =>
                             parsed = ParseErr(MissingFile(
                                 PartsOf(input, k)[Len(PartsOf(input, k))]))
            /\ (/\ parsed.status = "Ok"
                /\ Len(parsed.commands) = Len(segments)) =>
                  \A k \in DOMAIN segments :
                      LET parts == PartsOf(input, k)
                          ops   == OperatorsAt(parts, {"<", ">", ">>"})
                          marks == OperatorsAt(parts, {"&"})
                      IN  /\ \A p \in ops : p < Len(parts)
                          /\ Len(parts) =
                                 1 + Len(parsed.commands[k].args)
                                   + Cardinality(marks) + 2 * Cardinality(ops)

\* `a b >>` was refused with the error that names `>>`
C21_Witness ==
    /\ input = "a b >>"
    /\ Dangling(PartsOf(input, 1))
    /\ parsed = ParseErr("Missing output file after '>>'")

\* a string holds one of the characters of a set
HasChar(str, chars) == \E k \in 1..Len(str) : Char(str, k) \in chars

\* C22 as stated: every unquoted white space character, space or tab,
\* separates tokens: in an accepted line without any quote no program and no
\* argument holds a space or a tab.
C22_AsStated ==
    (parsed.status = "Ok" /\ ~HasChar(input, {"\"", "'"})) =>
        \A k \in DOMAIN parsed.commands :
            /\ ~HasChar(parsed.commands[k].program, WhiteSpace)
            /\ \A a \in DOMAIN parsed.commands[k].args :
                  ~HasChar(parsed.commands[k].args[a], WhiteSpace)

\* the dangerous characters the claim lists
ListedDangerous ==
    {";", "&", "|", GRAVE, "$", "(", ")", "<", ">", "\"", "'", "\\"}

\* C23 as stated: validate_arguments rejects an argument list exactly when it
\* has more than max_arg_count entries, or an argument is longer than
\* max_command_length, or an argument holds one of the listed characters.
C23_AsStated ==
    check_last.fn = "validate_arguments" =>
        (check_last.result # "Ok" <=>
            \/ Len(check_last.arg) > config.max_arg_count
            \/ \E k \in DOMAIN check_last.arg :
                  \/ Len(check_last.arg[k]) > config.max_command_length
                  \/ any_char(check_last.arg[k], ListedDangerous))

\* C24 as stated: execute_pipeline applies the rules of validate_arguments to
\* the resolved arguments of every stage before spawning it: no spawned
\* process has more than max_arg_count arguments, an argument longer than
\* max_command_length, or an argument with a dangerous character.
C24_AsStated ==
    \A p \in DOMAIN procs :
        /\ Len(procs[p].args) <= config.max_arg_count
        /\ \A k \in DOMAIN procs[p].args :
              /\ Len(procs[p].args[k]) <= config.max_command_length
              /\ ~any_char(procs[p].args[k], ListedDangerous)

\* a path holds a parent-directory segment
HasParentSegment(path) ==
    \E k \in DOMAIN split(path, "/") : split(path, "/")[k] = ".."

IsPathTraversal(res) == StartsWith(res, "PathTraversal")

PathCalls == {"validate_file_path", "validate_path"}

\* C25: with path validation enabled, a path validator rejects with
\* PathTraversal every path that holds a parent-directory segment, relative
\* or absolute, under an allowed base directory or not
C25_AsStated ==
    (/\ check_last.fn \in PathCalls
     /\ config.validate_paths
     /\ HasParentSegment(check_last.arg[1]))
        => IsPathTraversal(check_last.result)

\* a path is the directory dir or lies beneath it
Beneath(path, dir) == path = dir \/ StartsWith(path, dir \o "/")

\* the allowed base directories of a path validator
BaseDirs(fn) ==
    IF fn = "validate_file_path" THEN ALLOWED_DIRS ELSE ALLOWED_PREFIXES

InAllowedDir(fn, path) == \E dir \in BaseDirs(fn) : Beneath(path, dir)

\* C26: with path validation enabled, a path validator accepts an absolute
\* path only if it is an allowed base directory or lies beneath one, rejects
\* every other absolute path with PathTraversal, and accepts a relative path
\* without `..` (one with a NUL or over the length limit aside)
C26_AsStated ==
    (check_last.fn \in PathCalls /\ config.validate_paths)
        => LET path == check_last.arg[1]
               res == check_last.result
           IN  /\ (is_absolute(path) /\ res = "Ok")
                      => InAllowedDir(check_last.fn, path)
               /\ (is_absolute(path) /\ ~InAllowedDir(check_last.fn, path))
                      => IsPathTraversal(res)
               /\ (/\ ~is_absolute(path)
                   /\ ~Contains(path, "..")
                   /\ ~Contains(path, NUL)
                   /\ Len(path) <= PATH_LENGTH_LIMIT)
                      => res = "Ok"

\* the text sanitize_input returned, for a result that is Ok
OkText(res) == SubSeq(res, 4, Len(res))

IsOk(res) == StartsWith(res, "Ok:")

\* str with every NUL and every control character but newline and tab removed
Stripped(str) == filter_chars(str, {ch \in Pieces : is_control(ch)} \ {"\n", "\t"})

\* a prefix of str
IsPrefix(text, str) == StartsWith(str, text)

\* C27: with sanitization enabled, sanitize_input either rejects the input
\* because the stripped text matches a suspicious pattern, or returns the
\* stripped input truncated to at most max_command_length; it never returns
\* text that matches a suspicious pattern
C27_AsStated ==
    (check_last.fn = "sanitize_input" /\ config.sanitize_input)
        => LET raw == check_last.arg[1]
               res == check_last.result
           IN  \/ /\ res = "DangerousCommand"
                  /\ suspicious(Stripped(raw))
               \/ /\ IsOk(res)
                  /\ IsPrefix(OkText(res), Stripped(raw))
                  /\ byte_len(OkText(res)) <= config.max_command_length
                  /\ \/ OkText(res) = Stripped(raw)
                     \/ byte_len(Stripped(raw)) > config.max_command_length
                  /\ ~suspicious(OkText(res))

\* a step that is a call of can_start_process
IsStartCall ==
    /\ check_last'.fn = "can_start_process"
    /\ UNCHANGED <<guards, th_pc, created, dropped>>

\* C28: can_start_process returns ResourceLimitExceeded if and only if the
\* active-process counter is at least max_background_processes, and it
\* leaves the counter as it is, on success and on failure
C28_StartChecksCeiling ==
    [][IsStartCall =>
          /\ check_last'.result = "ResourceLimitExceeded"
                 <=> active_processes >= config.max_background_processes
          /\ check_last'.result \in {"ResourceLimitExceeded", "Ok"}
          /\ active_processes' = active_processes]_vars

\* can_start_process has failed at the ceiling, with guards alive
C28_Witness ==
    /\ check_last.fn = "can_start_process"
    /\ check_last.result = "ResourceLimitExceeded"
    /\ check_last.arg = <<SmallBackgroundProcesses>>
    /\ active_processes = SmallBackgroundProcesses

\* can_start_process has succeeded one below the ceiling
C28_WitnessOk ==
    /\ check_last.fn = "can_start_process"
    /\ check_last.result = "Ok"
    /\ check_last.arg = <<SmallBackgroundProcesses - 1>>
    /\ config.max_background_processes = SmallBackgroundProcesses

\* the pipeline execute_pipeline was called with is a backgrounded one
Backgrounded == commands # <<>> /\ ~should_wait(commands)

\* C29: every process execute_pipeline spawns for a backgrounded pipeline is
\* accounted by exactly one ProcessGuard: a guard was created per spawn, and
\* the active-process counter is the number of guards created and not yet
\* released
C29_AsStated ==
    Backgrounded =>
        /\ created = Len(procs)
        /\ active_processes = created - dropped

\* the processes spawned so far whose resolved program is name
SpawnsOf(name) == {p \in DOMAIN procs : procs[p].program = name}

\* the count of every name is the number of its spawns, and only spawned
\* names have an entry
CountsAreSpawns ==
    /\ DOMAIN command_history = {procs[p].program : p \in DOMAIN procs}
    /\ \A name \in DOMAIN command_history :
          command_history[name].count = Cardinality(SpawnsOf(name))

\* no entry is removed and no count decreases
CountsGrow ==
    \A name \in DOMAIN command_history :
        /\ name \in DOMAIN command_history'
        /\ command_history'[name].count >= command_history[name].count

\* C30: after any sequence of execute_pipeline calls the CommandStats count
\* of a name is the number of successful spawns whose resolved program is
\* that name, spawns of pipelines that aborted later included; an entry is
\* created on the first such spawn and is never removed or decreased
C30_CountsSpawns == []CountsAreSpawns /\ [][CountsGrow]_vars

\* a second call has aborted after a spawn: the script of the first call and
\* both spawns of ls are counted
C30_Witness ==
    /\ pc = "returned"
    /\ result.status = "Err"
    /\ Len(procs) = 3
    /\ Len(commands) = 2
    /\ DOMAIN command_history = {"ls", "python3"}
    /\ command_history["ls"].count = 2
    /\ procs[3].program = "ls"

\* the stages of the submitted pipeline whose program is not empty
NamedStages == {k \in 0..(Len(commands) - 1) : commands[k + 1].program # ""}

\* the kinds of error the spawn loop returns for a stage
IsStageError(res) ==
    res.status = "Err" /\ res.kind \notin {"Process:too_long", "Process:wait"}

\* C31: a stage whose program is the empty string is dropped by
\* execute_pipeline: no process is spawned for it, no error of the spawn loop
\* is raised at it, and once the loop is over every other stage was spawned
C31_EmptyProgramDropped ==
    /\ \A p \in DOMAIN procs : procs[p].stage \in NamedStages
    /\ IsStageError(result) => result.stage \in NamedStages
    /\ (pc = "wait" \/ (pc = "returned" /\ result = Ok))
           => {procs[p].stage : p \in DOMAIN procs} = NamedStages

\* a pipeline with an empty stage between two named ones has returned Ok
\* with both of them spawned
C31_Witness ==
    /\ pc = "returned"
    /\ result = Ok
    /\ Len(commands) = 3
    /\ commands[2].program = ""
    /\ Len(procs) = 2

\* how many of the times in log lie in the 60 seconds that end with log[n]
InWindowOf(log, n) ==
    Cardinality({m \in DOMAIN log :
                    log[m] <= log[n] /\ log[n] - log[m] < WINDOW_SECS})

\* C32: when several threads call check_rate_limit for one key concurrently,
\* prune, count and append run as one atomic step: the calls accepted for the
\* key within any 60-second window never exceed 10, and no accepted timestamp
\* is lost (the stored sequence is the accepted ones less those that expired)
C32_ConcurrentWindow ==
    \A k \in DOMAIN rate_limiter :
        /\ \A n \in DOMAIN rl_accepted[k] : InWindowOf(rl_accepted[k], n) <= RATE_LIMIT
        /\ IsSuffix(rate_limiter[k], rl_accepted[k])
        /\ \A n \in 1..(Len(rl_accepted[k]) - Len(rate_limiter[k])) :
              now - rl_accepted[k][n] >= WINDOW_SECS

\* one caller holds the lock and is about to refuse its call at a full
\* window, so the other cannot enter
C32_Witness ==
    \E t1, t2 \in Callers :
        /\ t1 # t2
        /\ rl_threads[t1].pc = "len"
        /\ rl_threads[t2].pc = "idle"
        /\ Len(rate_limiter[rl_threads[t1].key]) = RATE_LIMIT
        /\ rl_last.result = "Ok"

\* C33 as stated: when every caller registers a ProcessGuard only after its
\* can_start_process call succeeded, the active-process counter never
\* exceeds max_background_processes, also when the callers run concurrently.
C33_AsStated == active_processes <= config.max_background_processes

\* C34: within one execute_pipeline call stages are spawned strictly left to
\* right: the processes are in the order of their stages, and a stage is
\* resolved, validated and spawned only when every stage with a program to
\* its left was spawned successfully
C34_LeftToRight ==
    /\ \A p, q \in DOMAIN procs : p < q => procs[p].stage < procs[q].stage
    /\ pc = "loop" => SpawnedStages = {k \in NamedStages : k < i}
    /\ LoopError => SpawnedStages = {k \in NamedStages : k < result.stage}

\* the loop has spawned the three stages of a pipeline in turn
C34_Witness ==
    /\ pc = "loop"
    /\ Len(commands) = 3
    /\ i = 3
    /\ Len(procs) = 3
    /\ \A p \in DOMAIN procs : procs[p].stage = p - 1

PolicyKinds ==
    {"SecurityViolation:whitelist", "SecurityViolation:blacklist",
     "SecurityViolation:traversal", "SecurityViolation:arglen"}

\* the call was aborted by a policy violation
PolicyAbort == LoopError /\ result.kind \in PolicyKinds

\* C35: within a stage, resolution and policy validation run before a
\* redirect file is opened, and the output file of the final stage is opened
\* only when that stage is reached: a stage that violates the policy ends
\* the call with the violation, whatever its redirects, and a pipeline
\* aborted by a policy violation has created or truncated no file
C35_PolicyAbortOpensNothing ==
    /\ (LoopError /\ StageViolates(result.stage)) => PolicyAbort
    /\ PolicyAbort => files = files_before

\* the final stage, refused by the policy, redirects its output to a file
\* that holds data, after an earlier stage was spawned
C35_Witness ==
    /\ PolicyAbort
    /\ result.stage = Len(commands) - 1
    /\ commands[Len(commands)].output_redirect.some
    /\ files[commands[Len(commands)].output_redirect.path].exists
    /\ files[commands[Len(commands)].output_redirect.path].data # <<>>
    /\ procs # <<>>

\* C36 as stated: for every non-background pipeline, when the wait phase of
\* execute_pipeline begins the executor holds no read end of a captured
\* stdout pipe: each pipe captured from a stage is the standard input of a
\* later stage.
C36_AsStated ==
    pc = "wait" =>
        /\ ~prev_stdout.some
        /\ \A p \in DOMAIN procs :
              procs[p].stdout.kind = "pipe" =>
                  \E q \in DOMAIN procs :
                      /\ procs[q].stage > procs[p].stage
                      /\ procs[q].stdin = procs[p].stdout

\* a step of execute_with_monitoring that starts a process
MonStarts == Len(procs') > Len(procs)

\* a step in which caller t passes can_start_process
MonPasses(t) == rl_threads[t].pc = "can_start" /\ rl_threads'[t].pc = "output"

\* a step in which the call of caller t is refused by can_start_process
MonRefused(t) ==
    /\ rl_threads[t].pc = "can_start"
    /\ check_last'.result = "ResourceLimitExceeded:processes"

\* the rate-limit slot the call of caller t took is still stored for its key
SlotTaken(t) ==
    LET key == rl_threads[t].key
    IN  /\ key = "cmd:" \o check_last.arg[1]
        /\ Len(rate_limiter'[key]) > 0
        /\ rate_limiter'[key][Len(rate_limiter'[key])] = rl_threads[t].now
        /\ rl_accepted'[key][Len(rl_accepted'[key])] = rl_threads[t].now

\* C37: execute_with_monitoring starts a process only after check_rate_limit
\* and then can_start_process have both succeeded for the call; a call
\* refused by can_start_process starts no process and records no statistic,
\* yet has consumed one rate-limit slot of the key cmd:<name>
C37_MonitoringOrder ==
    [][/\ MonStarts =>
              \E t \in Monitors : rl_threads[t].pc = "output" /\ SlotTaken(t)
       /\ \A t \in Monitors :
             /\ (rl_threads'[t].pc = "can_start" /\ rl_threads[t].pc # "can_start")
                    => rl_last'.result = "Ok" /\ rl_threads[t].pc = "idle"
             /\ MonPasses(t) =>
                    active_processes < config.max_background_processes
             /\ rl_threads'[t].pc = "output" =>
                    rl_threads[t].pc \in {"can_start", "output"}
             /\ MonRefused(t) =>
                    /\ active_processes >= config.max_background_processes
                    /\ procs' = procs
                    /\ command_history' = command_history
                    /\ SlotTaken(t)]_vars

\* a call was refused by can_start_process after an earlier call had run:
\* one process and one statistic, two rate-limit slots
C37_Witness ==
    /\ check_last.fn = "execute_with_monitoring"
    /\ check_last.result = "ResourceLimitExceeded:processes"
    /\ Len(procs) = 1
    /\ command_history["ls"].count = 1
    /\ Len(rate_limiter["cmd:ls"]) = 2

\* a line without its quote characters
RECURSIVE Unquoted(_)
Unquoted(line) ==
    IF line = "" THEN ""
    ELSE (IF Char(line, 1) \in {"\"", "'"} THEN "" ELSE Char(line, 1))
             \o Unquoted(SubSeq(line, 2, Len(line)))

\* the quotes of a line enclose words: after an opening quote comes a
\* character of the word, and inside the quotes there is no white space, no
\* pipe and no quote of the other kind; without its quotes such a line has
\* the same words
QuotesEncloseWords(line) ==
    \A k \in 1..Len(line) :
        /\ (Char(line, k) \in {"\"", "'"} /\ QuoteAt(line, k) = "") =>
               k < Len(line) /\ Char(line, k + 1) \notin {"\"", "'"}
        /\ QuoteAt(line, k) # "" =>
               Char(line, k) \notin {" ", "\t", "|", "\"", "'"} \ {QuoteAt(line, k)}

\* some `<`, `>`, `>>` or `&` of a line is written inside quotes
HasQuotedOperator(line) ==
    \E k \in 1..Len(line) :
        Char(line, k) \in {"<", ">", "&"} /\ QuoteAt(line, k) # ""

OperatorTexts == {"<", ">", ">>", "&"}

\* C38: parse_command classifies the tokens by their text after quote
\* removal: a line whose quotes enclose words gives the result of the same
\* line written without the quotes, so a quoted `<`, `>`, `>>` or `&` acts as
\* the operator; and no program and no argument of an accepted line is the
\* text of an operator, quoted or not.
C38_QuotedOperators ==
    (parsed # NoParse /\ QuotesEncloseWords(input)) =>
        /\ parsed = parse_command(Unquoted(input))
        /\ parsed.status = "Ok" =>
               \A k \in DOMAIN parsed.commands :
                   /\ parsed.commands[k].program \notin OperatorTexts
                   /\ \A a \in DOMAIN parsed.commands[k].args :
                          parsed.commands[k].args[a] \notin OperatorTexts

\* `echo ">" f` gave the program echo with the output f and no argument
C38_Witness ==
    /\ input = "echo \">\" f"
    /\ HasQuotedOperator(input)
    /\ parsed = ParseOk(<<Cmd("echo", <<>>, NoPath, SomePath("f"), FALSE, FALSE)>>)

\* `echo '<' f ">>" f` gave the program echo with both redirects, appending
C38_WitnessAll ==
    /\ input = "echo '<' f \">>\" f"
    /\ parsed = ParseOk(<<Cmd("echo", <<>>, SomePath("f"), SomePath("f"), TRUE, FALSE)>>)

\* the stretches of a line between its pipes, without the white space at
\* their ends
SegmentsOf(line) ==
    LET pieces == split(trim(line), "|")
    IN  [k \in DOMAIN pieces |-> trim(pieces[k])]

\* a Command is the one of a segment: its program is the first plain part of
\* the segment and its args are the other plain parts
IsCommandOf(cmd, segment) ==
    LET parts == tokenize(segment)
    IN  /\ PlainAt(parts) # {}
        /\ cmd.program = parts[Smallest(PlainAt(parts))]
        /\ cmd.args = PartsAt(parts, PlainAt(parts) \ {Smallest(PlainAt(parts))})

\* the commands of a list are those of segments taken from left to right
InSegmentOrder(cmds, segments) ==
    \E f \in [DOMAIN cmds -> DOMAIN segments] :
        /\ \A j, k \in DOMAIN cmds : j < k => f[j] < f[k]
        /\ \A k \in DOMAIN cmds : IsCommandOf(cmds[k], segments[f[k]])

\* C39: whenever parse_command returns Ok, the list is not empty, every
\* Command of it has a program that is not empty, there are at most as many
\* commands as pipe segments, and the commands are those of segments taken in
\* their order from left to right.
C39_OkListShape ==
    parsed.status = "Ok" =>
        /\ parsed.commands # <<>>
        /\ \A k \in DOMAIN parsed.commands : parsed.commands[k].program # ""
        /\ Len(parsed.commands) <= Len(SegmentsOf(input))
        /\ InSegmentOrder(parsed.commands, SegmentsOf(input))

\* `a|aa` gave the commands a and aa, in this order
C39_Witness ==
    /\ input = "a|aa"
    /\ parsed.status = "Ok"
    /\ Len(parsed.commands) = 2
    /\ parsed.commands[1].program = "a"
    /\ parsed.commands[2].program = "aa"

\* `a|""` gave one command for two segments: the second has no part
C39_WitnessFewer ==
    /\ input = "a|\"\""
    /\ Len(SegmentsOf(input)) = 2
    /\ parsed = ParseOk(<<Cmd("a", <<>>, NoPath, NoPath, FALSE, FALSE)>>)

====
